---- MODULE Spec2Model ----
(***************************************************************************)
(* SkyWings voice agent: the server's session-keyed dialog state machine   *)
(* (server.js).  Utterances are sequences of one-character strings, so     *)
(* the substring tests and regular expressions of the handlers are         *)
(* computed on the text as the code computes them.                         *)
(***************************************************************************)
EXTENDS Integers, Sequences, FiniteSets, TLC

VARIABLES sessions, res, app, voice, tasks, now, manager, reply, probe

vars == <<sessions, res, app, voice, tasks, now, manager, reply, probe>>

\* the server's state; the page's (AirlineVoiceApp and VoiceEngine); the
\* ConversationManager's, with what it answered last; the input and results of a
\* function under study
serverVars == <<sessions, res>>
appVars == <<app, voice, tasks, now>>
managerVars == <<manager, reply>>
clientVars == <<appVars, managerVars, probe>>
exceptApp == <<serverVars, managerVars, probe>>
exceptManager == <<serverVars, appVars, probe>>

(***************************************************************************)
(* JavaScript values.  null / undefined is None, a present value v is      *)
(* Some(v).                                                                *)
(***************************************************************************)
None == <<>>
Some(v) == <<v>>
IsSet(o) == o # None
Val(o) == o[1]

(***************************************************************************)
(* Characters and strings.                                                 *)
(***************************************************************************)
UpperSeq == <<"A","B","C","D","E","F","G","H","I","J","K","L","M","N","O","P","Q","R","S","T","U","V","W","X","Y","Z">>
LowerSeq == <<"a","b","c","d","e","f","g","h","i","j","k","l","m","n","o","p","q","r","s","t","u","v","w","x","y","z">>
DigitSeq == <<"0","1","2","3","4","5","6","7","8","9">>

Range(s) == {s[i] : i \in 1..Len(s)}

UpperSet == Range(UpperSeq)
LowerSet == Range(LowerSeq)
DigitSet == Range(DigitSeq)
LetterSet == UpperSet \cup LowerSet
SpaceSet == {" "}

LowerMap ==
       "A" :> "a" @@ "B" :> "b" @@ "C" :> "c" @@ "D" :> "d" @@ "E" :> "e" @@ "F" :> "f" @@ "G" :> "g"
    @@ "H" :> "h" @@ "I" :> "i" @@ "J" :> "j" @@ "K" :> "k" @@ "L" :> "l" @@ "M" :> "m" @@ "N" :> "n"
    @@ "O" :> "o" @@ "P" :> "p" @@ "Q" :> "q" @@ "R" :> "r" @@ "S" :> "s" @@ "T" :> "t" @@ "U" :> "u"
    @@ "V" :> "v" @@ "W" :> "w" @@ "X" :> "x" @@ "Y" :> "y" @@ "Z" :> "z"
UpperMap ==
       "a" :> "A" @@ "b" :> "B" @@ "c" :> "C" @@ "d" :> "D" @@ "e" :> "E" @@ "f" :> "F" @@ "g" :> "G"
    @@ "h" :> "H" @@ "i" :> "I" @@ "j" :> "J" @@ "k" :> "K" @@ "l" :> "L" @@ "m" :> "M" @@ "n" :> "N"
    @@ "o" :> "O" @@ "p" :> "P" @@ "q" :> "Q" @@ "r" :> "R" @@ "s" :> "S" @@ "t" :> "T" @@ "u" :> "U"
    @@ "v" :> "V" @@ "w" :> "W" @@ "x" :> "X" @@ "y" :> "Y" @@ "z" :> "Z"
DigitVal ==
       "0" :> 0 @@ "1" :> 1 @@ "2" :> 2 @@ "3" :> 3 @@ "4" :> 4 @@ "5" :> 5 @@ "6" :> 6 @@ "7" :> 7 @@ "8" :> 8 @@ "9" :> 9

IsUpper(c) == c \in UpperSet
IsLower(c) == c \in LowerSet
IsLetter(c) == c \in LetterSet
IsDigit(c) == c \in DigitSet
IsSpace(c) == c \in SpaceSet

lowerChar(c) == IF IsUpper(c) THEN LowerMap[c] ELSE c
upperChar(c) == IF IsLower(c) THEN UpperMap[c] ELSE c

\* String.prototype.toLowerCase, toUpperCase
toLowerCase(s) == SubSeq([i \in 1..Len(s) |-> lowerChar(s[i])], 1, Len(s))
toUpperCase(s) == SubSeq([i \in 1..Len(s) |-> upperChar(s[i])], 1, Len(s))

\* String.prototype.trim
trim(s) ==
    IF \A i \in 1..Len(s) : IsSpace(s[i]) THEN <<>>
    ELSE LET n == Len(s)
             \* the numbers of white-space characters at the start and at the end
             a == CHOOSE i \in 0..n : ~IsSpace(s[i + 1]) /\ \A k \in 1..i : IsSpace(s[k])
             b == CHOOSE i \in 0..n : ~IsSpace(s[n - i]) /\ \A k \in (n - i + 1)..n : IsSpace(s[k])
         IN SubSeq(s, a + 1, n - b)

\* String.prototype.includes
includes(s, k) ==
    \E i \in 1..(Len(s) - Len(k) + 1) : s[i] = k[1] /\ SubSeq(s, i, i + Len(k) - 1) = k

\* the text at position i is k
At(s, i, k) == i + Len(k) - 1 <= Len(s) /\ s[i] = k[1] /\ SubSeq(s, i, i + Len(k) - 1) = k

\* a regular expression ^(k1|k2|...) tested on s
StartsWithAny(s, ks) == \E j \in 1..Len(ks) : At(s, 1, ks[j])

\* the end of the longest run of characters of the class C that starts at i
\* (i-1 when s[i] is not in C)
RunEnd(C, s, i) ==
    CHOOSE j \in (i-1)..Len(s) :
        /\ \A k \in i..j : s[k] \in C
        /\ (j = Len(s) \/ s[j+1] \notin C)

\* the least element of a non-empty set of numbers
Least(S) == CHOOSE i \in S : \A k \in S : i <= k

\* parseInt of a run of digits
RECURSIVE parseInt(_)
parseInt(d) ==
    IF d = <<>> THEN 0
    ELSE 10 * parseInt(SubSeq(d, 1, Len(d) - 1)) + DigitVal[d[Len(d)]]

\* a non-negative number in a template literal
RECURSIVE numToString(_)
numToString(n) ==
    IF n < 10 THEN <<DigitSeq[n + 1]>>
    ELSE numToString(n \div 10) \o <<DigitSeq[(n % 10) + 1]>>

\* message.match(/([A-Z]{3}\d{3})/i): the positions where the pattern matches
PnrPositions(s) ==
    {i \in 1..(Len(s) - 5) :
        /\ \A k \in i..(i+2) : IsLetter(s[k])
        /\ \A k \in (i+3)..(i+5) : IsDigit(s[k])}

\* pnrMatch[1].toUpperCase(), None when the pattern does not match
matchPnr(s) ==
    LET ps == PnrPositions(s)
    IN IF ps = {} THEN None
       ELSE Some(toUpperCase(SubSeq(s, Least(ps), Least(ps) + 5)))

PositiveWords == <<<<"y","e","s">>, <<"y","e","a","h">>, <<"y","e","p">>, <<"s","u","r","e">>, <<"o","k","a","y">>, <<"o","k">>, <<"p","l","e","a","s","e">>, <<"g","o"," ","a","h","e","a","d">>, <<"c","o","r","r","e","c","t">>,
                   <<"r","i","g","h","t">>, <<"t","h","a","t","'","s"," ","r","i","g","h","t">>, <<"f","i","n","e">>, <<"a","b","s","o","l","u","t","e","l","y">>, <<"d","e","f","i","n","i","t","e","l","y">>>>
NegativeWords == <<<<"n","o">>, <<"n","o","p","e">>, <<"n","a","h">>, <<"c","a","n","c","e","l">>, <<"w","r","o","n","g">>, <<"i","n","c","o","r","r","e","c","t">>, <<"n","o","t"," ","r","i","g","h","t">>>>

isPositive(text) == StartsWithAny(toLowerCase(text), PositiveWords)
isNegative(text) == StartsWithAny(toLowerCase(text), NegativeWords)

(***************************************************************************)
(* Data.                                                                   *)
(***************************************************************************)
STATES == [GREETING |-> "greeting",
           WAITING_NAME |-> "waiting_name",
           WAITING_SERVICE_CHOICE |-> "waiting_service_choice",
           WAITING_PNR |-> "waiting_pnr",
           CONFIRMING_FLIGHT |-> "confirming_flight",
           SEAT_TYPE |-> "seat_type",
           SEAT_CONFIRM |-> "seat_confirm",
           BAGGAGE_AMOUNT |-> "baggage_amount",
           BAGGAGE_CONFIRM |-> "baggage_confirm",
           PRIORITY_CONFIRM |-> "priority_confirm",
           WHEELCHAIR_NAME |-> "wheelchair_name",
           WHEELCHAIR_TYPE |-> "wheelchair_type",
           PET_DETAILS |-> "pet_details",
           WHATSAPP_CONFIRM |-> "whatsapp_confirm",
           TRANSFER |-> "transfer",
           COMPLETED |-> "completed"]

KNOWN_SERVICES == <<"seat", "baggage", "priority", "wheelchair", "pet">>

\* the bookings the server loads: the test PNRs
bookingsData ==
    [bookings |->
        (<<"A","B","C","1","2","3">> :> [passenger |-> <<"R","a","h","u","l"," ","S","h","a","r","m","a">>,
                      flight |-> [originCity |-> <<"B","L","R">>, destinationCity |-> <<"D","E","L">>, date |-> <<"F","e","b"," ","1","5">>]])
     @@ (<<"X","Y","Z","7","8","9">> :> [passenger |-> <<"P","r","i","y","a"," ","P","a","t","e","l">>,
                      flight |-> [originCity |-> <<"M","U","M">>, destinationCity |-> <<"B","L","R">>, date |-> <<"F","e","b"," ","2","0">>]])
     @@ (<<"D","E","F","4","5","6">> :> [passenger |-> <<"A","m","i","t"," ","K","u","m","a","r">>,
                      flight |-> [originCity |-> <<"D","E","L">>, destinationCity |-> <<"H","Y","D">>, date |-> <<"F","e","b"," ","2","5">>]])]

\* bookingsData.bookings[pnr], None when there is no such booking
lookupBooking(pnr) ==
    IF pnr \in DOMAIN bookingsData.bookings THEN Some(bookingsData.bookings[pnr]) ELSE None

emptyPendingData ==
    [seatType |-> None, seatPrice |-> None, seatId |-> None,
     baggageKg |-> None, baggageCost |-> None,
     wheelchairName |-> None, petBreed |-> None, petWeight |-> None]

createSession ==
    [state |-> STATES.GREETING,
     customerName |-> None,
     pnr |-> None,
     booking |-> None,
     requestedServices |-> <<>>,
     currentServiceIndex |-> 0,
     completedServices |-> <<>>,
     pendingData |-> emptyPendingData,
     unknownRequests |-> <<>>]

\* what a handler returns: the session as it leaves it, and what the agent says.
\* The reply is the list of the sentences' names: the texts are fixed templates.
Result(session, response) == [session |-> session, response |-> response]

(***************************************************************************)
(* State handlers.                                                         *)
(***************************************************************************)
NamePrefixes == <<<<"t","h","i","s"," ","i","s">>, <<"i"," ","a","m">>, <<"i","'","m">>, <<"m","y"," ","n","a","m","e"," ","i","s">>, <<"i","t","'","s">>, <<"c","a","l","l"," ","m","e">>, <<"h","i"," ","i","'","m">>, <<"h","e","y"," ","i","'","m">>>>
NameSuffixes == <<<<"h","e","r","e">>, <<"s","p","e","a","k","i","n","g">>, <<"t","h","i","s"," ","s","i","d","e">>>>

\* Pattern 1: /(?:this is|i am|...)\s+([A-Za-z]+)/i matches with the prefix at i
\* (lower is s in lower case: the i flag)
prefixMatchAt(s, lower, i) ==
    \E j \in 1..Len(NamePrefixes) :
        /\ At(lower, i, NamePrefixes[j])
        /\ LET p == i + Len(NamePrefixes[j])
               w == RunEnd(SpaceSet, s, p)
           IN w >= p /\ RunEnd(LetterSet, s, w + 1) >= w + 1

prefixMatch(s) ==
    LET lower == toLowerCase(s)
        ps == {i \in 1..Len(s) : prefixMatchAt(s, lower, i)}
    IN IF ps = {} THEN None
       ELSE LET i == Least(ps)
                j == CHOOSE j \in 1..Len(NamePrefixes) : At(lower, i, NamePrefixes[j])
                w == RunEnd(SpaceSet, s, i + Len(NamePrefixes[j]))
            IN Some(SubSeq(s, w + 1, RunEnd(LetterSet, s, w + 1)))

\* Pattern 2: /^([A-Za-z]+)\s+(?:here|speaking|this side)/i
suffixMatch(s) ==
    LET l == RunEnd(LetterSet, s, 1)
        w == RunEnd(SpaceSet, s, l + 1)
    IN IF l >= 1 /\ w >= l + 1
          /\ \E j \in 1..Len(NameSuffixes) : At(toLowerCase(s), w + 1, NameSuffixes[j])
       THEN Some(SubSeq(s, 1, l)) ELSE None

\* Pattern 3: /^([A-Za-z]{2,})$/i
singleWord(s) ==
    IF Len(s) >= 2 /\ \A i \in 1..Len(s) : IsLetter(s[i]) THEN Some(s) ELSE None

\* Pattern 4: /^([A-Z][a-z]+)/
firstWord(s) ==
    IF Len(s) >= 2 /\ IsUpper(s[1]) /\ IsLower(s[2])
    THEN Some(SubSeq(s, 1, RunEnd(LowerSet, s, 2))) ELSE None

extractName(cleaned) ==
    IF IsSet(prefixMatch(cleaned)) THEN prefixMatch(cleaned)
    ELSE IF IsSet(suffixMatch(cleaned)) THEN suffixMatch(cleaned)
    ELSE IF IsSet(singleWord(cleaned)) THEN singleWord(cleaned)
    ELSE firstWord(cleaned)

\* name.charAt(0).toUpperCase() + name.slice(1).toLowerCase()
capitalize(name) == toUpperCase(SubSeq(name, 1, 1)) \o toLowerCase(SubSeq(name, 2, Len(name)))

\* A faulty variant of handleName: the call goes on without a name.
handleName_GoesOnUnnamed(session, message) ==
    LET name == extractName(trim(message))
    IN Result([session EXCEPT !.customerName = IF IsSet(name)
                                               THEN Some(capitalize(Val(name))) ELSE @,
                              !.state = STATES.WAITING_SERVICE_CHOICE],
              <<"hello_offer_services">>)

handleName(session, message) ==
    LET name == extractName(trim(message))
    IN IF IsSet(name)
       THEN Result([session EXCEPT !.customerName = Some(capitalize(Val(name))),
                                   !.state = STATES.WAITING_SERVICE_CHOICE],
                   <<"hello_offer_services">>)
       ELSE Result(session, <<"name_reprompt">>)

confirmFlight(session) ==
    Result([session EXCEPT !.state = STATES.CONFIRMING_FLIGHT], <<"confirm_flight">>)

SeatKeywords == <<<<"s","e","a","t">>, <<"w","i","n","d","o","w">>, <<"a","i","s","l","e">>, <<"l","e","g","r","o","o","m">>>>
BaggageKeywords == <<<<"b","a","g","g","a","g","e">>, <<"l","u","g","g","a","g","e">>, <<"e","x","t","r","a"," ","k","g">>>>
PriorityKeywords == <<<<"p","r","i","o","r","i","t","y">>, <<"c","h","e","c","k","-","i","n">>>>
WheelchairKeywords == <<<<"w","h","e","e","l","c","h","a","i","r">>, <<"s","p","e","c","i","a","l"," ","a","s","s","i","s","t","a","n","c","e">>>>
PetKeywords == <<<<"p","e","t">>, <<"d","o","g">>, <<"c","a","t">>>>
knownKeywords == <<<<"s","e","a","t">>, <<"w","i","n","d","o","w">>, <<"a","i","s","l","e">>, <<"l","e","g","r","o","o","m">>, <<"b","a","g","g","a","g","e">>, <<"l","u","g","g","a","g","e">>, <<"p","r","i","o","r","i","t","y">>,
                   <<"c","h","e","c","k","-","i","n">>, <<"w","h","e","e","l","c","h","a","i","r">>, <<"p","e","t">>, <<"d","o","g">>, <<"c","a","t">>, <<"a","s","s","i","s","t","a","n","c","e">>>>

includesAny(s, ks) == \E j \in 1..Len(ks) : includes(s, ks[j])

\* the services detected in the utterance, pushed in the order of the tests
detectServices(lower) ==
       (IF includesAny(lower, SeatKeywords) THEN <<"seat">> ELSE <<>>)
    \o (IF includesAny(lower, BaggageKeywords) THEN <<"baggage">> ELSE <<>>)
    \o (IF includesAny(lower, PriorityKeywords) THEN <<"priority">> ELSE <<>>)
    \o (IF includesAny(lower, WheelchairKeywords) THEN <<"wheelchair">> ELSE <<>>)
    \o (IF includesAny(lower, PetKeywords) THEN <<"pet">> ELSE <<>>)

\* A faulty variant of handleServiceChoice: an utterance without a known keyword is not
\* kept in unknownRequests.
handleServiceChoice_DropsUnknown(session, message) ==
    LET lower == toLowerCase(message)
        unknown == session.unknownRequests
        pnr == matchPnr(message)
        found == IsSet(pnr) /\ IsSet(lookupBooking(Val(pnr)))
        s1 == [session EXCEPT !.requestedServices = detectServices(lower),
                              !.unknownRequests = unknown,
                              !.pnr = IF found THEN pnr ELSE @,
                              !.booking = IF found THEN lookupBooking(Val(pnr)) ELSE @]
    IN IF Len(s1.requestedServices) = 0 /\ Len(s1.unknownRequests) = 0
       THEN Result(s1, <<"list_services">>)
       ELSE IF ~IsSet(s1.pnr)
       THEN Result([s1 EXCEPT !.state = STATES.WAITING_PNR], <<"ask_pnr">>)
       ELSE confirmFlight(s1)

\* A faulty variant of handleServiceChoice: the services named are added to the list
\* the session has.
handleServiceChoice_KeepsList(session, message) ==
    LET lower == toLowerCase(message)
        hasKnownService == includesAny(lower, knownKeywords)
        unknown == IF ~hasKnownService /\ Len(lower) > 5
                   THEN Append(session.unknownRequests, message)
                   ELSE session.unknownRequests
        pnr == matchPnr(message)
        found == IsSet(pnr) /\ IsSet(lookupBooking(Val(pnr)))
        s1 == [session EXCEPT !.requestedServices = @ \o detectServices(lower),
                              !.unknownRequests = unknown,
                              !.pnr = IF found THEN pnr ELSE @,
                              !.booking = IF found THEN lookupBooking(Val(pnr)) ELSE @]
    IN IF Len(s1.requestedServices) = 0 /\ Len(s1.unknownRequests) = 0
       THEN Result(s1, <<"list_services">>)
       ELSE IF ~IsSet(s1.pnr)
       THEN Result([s1 EXCEPT !.state = STATES.WAITING_PNR], <<"ask_pnr">>)
       ELSE confirmFlight(s1)

handleServiceChoice(session, message) ==
    LET lower == toLowerCase(message)
        hasKnownService == includesAny(lower, knownKeywords)
        unknown == IF ~hasKnownService /\ Len(lower) > 5
                   THEN Append(session.unknownRequests, message)
                   ELSE session.unknownRequests
        pnr == matchPnr(message)
        found == IsSet(pnr) /\ IsSet(lookupBooking(Val(pnr)))
        s1 == [session EXCEPT !.requestedServices = detectServices(lower),
                              !.unknownRequests = unknown,
                              !.pnr = IF found THEN pnr ELSE @,
                              !.booking = IF found THEN lookupBooking(Val(pnr)) ELSE @]
    IN IF Len(s1.requestedServices) = 0 /\ Len(s1.unknownRequests) = 0
       THEN Result(s1, <<"list_services">>)
       ELSE IF ~IsSet(s1.pnr)
       THEN Result([s1 EXCEPT !.state = STATES.WAITING_PNR], <<"ask_pnr">>)
       ELSE confirmFlight(s1)

\* A faulty variant of handlePnr: a PNR that is not found is kept on the session.
handlePnr_KeepsUnknownPnr(session, message) ==
    LET pnr == matchPnr(message)
    IN IF IsSet(pnr)
       THEN IF IsSet(lookupBooking(Val(pnr)))
            THEN confirmFlight([session EXCEPT !.pnr = pnr,
                                               !.booking = lookupBooking(Val(pnr))])
            ELSE Result([session EXCEPT !.pnr = pnr], <<"pnr_not_found">>)
       ELSE Result(session, <<"pnr_reprompt">>)

\* A faulty variant of handlePnr: the flight is confirmed without looking the PNR up.
handlePnr_SkipsLookup(session, message) ==
    LET pnr == matchPnr(message)
    IN IF IsSet(pnr)
       THEN confirmFlight([session EXCEPT !.pnr = pnr,
                                          !.booking = lookupBooking(Val(pnr))])
       ELSE Result(session, <<"pnr_reprompt">>)

handlePnr(session, message) ==
    LET pnr == matchPnr(message)
    IN IF IsSet(pnr)
       THEN IF IsSet(lookupBooking(Val(pnr)))
            THEN confirmFlight([session EXCEPT !.pnr = pnr,
                                               !.booking = lookupBooking(Val(pnr))])
            ELSE Result(session, <<"pnr_not_found">>)
       ELSE Result(session, <<"pnr_reprompt">>)

RECURSIVE startNextService(_, _)
startNextService(session, prefix) ==
    IF session.currentServiceIndex >= Len(session.requestedServices)
    THEN IF Len(session.unknownRequests) > 0
         THEN Result([session EXCEPT !.state = STATES.WHATSAPP_CONFIRM],
                     <<prefix, "transfer_offer_summary">>)
         ELSE Result([session EXCEPT !.state = STATES.WHATSAPP_CONFIRM],
                     <<prefix, "anything_else_or_summary">>)
    ELSE LET service == session.requestedServices[session.currentServiceIndex + 1]
         IN CASE service = "seat" ->
                   Result([session EXCEPT !.state = STATES.SEAT_TYPE], <<prefix, "ask_seat_type">>)
              [] service = "baggage" ->
                   Result([session EXCEPT !.state = STATES.BAGGAGE_AMOUNT], <<prefix, "ask_baggage_kg">>)
              [] service = "priority" ->
                   Result([session EXCEPT !.state = STATES.PRIORITY_CONFIRM], <<prefix, "offer_priority">>)
              [] service = "wheelchair" ->
                   Result([session EXCEPT !.state = STATES.WHEELCHAIR_NAME], <<prefix, "ask_wheelchair_name">>)
              [] service = "pet" ->
                   Result([session EXCEPT !.state = STATES.PET_DETAILS], <<prefix, "ask_pet_details">>)
              [] OTHER ->
                   startNextService([session EXCEPT !.currentServiceIndex = @ + 1], prefix)

\* A faulty variant of handleFlightConfirmation: a "no" forgets the PNR, not the booking.
handleFlightConfirmation_KeepsBooking(session, lower) ==
    IF isPositive(lower) THEN startNextService(session, "great")
    ELSE IF isNegative(lower)
    THEN Result([session EXCEPT !.state = STATES.WAITING_PNR, !.pnr = None], <<"reconfirm_pnr">>)
    ELSE Result(session, <<"flight_yes_or_no">>)

\* A faulty variant of handleFlightConfirmation: a "no" also drops the requested services.
handleFlightConfirmation_DropsServices(session, lower) ==
    IF isPositive(lower) THEN startNextService(session, "great")
    ELSE IF isNegative(lower)
    THEN Result([session EXCEPT !.state = STATES.WAITING_PNR,
                                !.pnr = None,
                                !.booking = None,
                                !.requestedServices = <<>>],
                <<"reconfirm_pnr">>)
    ELSE Result(session, <<"flight_yes_or_no">>)

handleFlightConfirmation(session, lower) ==
    IF isPositive(lower) THEN startNextService(session, "great")
    ELSE IF isNegative(lower)
    THEN Result([session EXCEPT !.state = STATES.WAITING_PNR,
                                !.pnr = None,
                                !.booking = None],
                <<"reconfirm_pnr">>)
    ELSE Result(session, <<"flight_yes_or_no">>)

\* the seat the agent quotes for a seat type
\* A faulty variant of seatOffer: every seat type is quoted at the window price.
seatOffer_FlatPrice(seatType, seatPrice, seatId) ==
    [seatType |-> seatType, seatPrice |-> 200, seatId |-> seatId]

seatOffer(seatType, seatPrice, seatId) ==
    [seatType |-> seatType, seatPrice |-> seatPrice, seatId |-> seatId]

offerSeat(session, offer) ==
    [session EXCEPT !.pendingData.seatType = Some(offer.seatType),
                    !.pendingData.seatPrice = Some(offer.seatPrice),
                    !.pendingData.seatId = Some(offer.seatId),
                    !.state = STATES.SEAT_CONFIRM]

handleSeatType(session, lower) ==
    IF includes(lower, <<"w","i","n","d","o","w">>)
    THEN Result(offerSeat(session, seatOffer(<<"w","i","n","d","o","w">>, 200, <<"1","4","A">>)), <<"quote_window">>)
    ELSE IF includes(lower, <<"a","i","s","l","e">>)
    THEN Result(offerSeat(session, seatOffer(<<"a","i","s","l","e">>, 150, <<"1","4","C">>)), <<"quote_aisle">>)
    ELSE IF includes(lower, <<"l","e","g","r","o","o","m">>) \/ includes(lower, <<"e","x","t","r","a">>)
    THEN Result(offerSeat(session, seatOffer(<<"e","x","t","r","a"," ","l","e","g","r","o","o","m">>, 800, <<"1","2","A">>)), <<"quote_legroom">>)
    ELSE Result(session, <<"seat_type_reprompt">>)

\* ${value} in a template literal; an unset field prints as undefined
str(o) == IF IsSet(o) THEN Val(o) ELSE <<"u","n","d","e","f","i","n","e","d">>

\* A faulty variant of handleSeatConfirm: the cursor is not advanced after the booking.
handleSeatConfirm_KeepsCursor(session, lower) ==
    IF isPositive(lower)
    THEN startNextService(
           [session EXCEPT
              !.completedServices =
                  Append(@, [type |-> "seat",
                             details |-> <<"S","e","a","t"," ">> \o str(session.pendingData.seatId) \o <<" ","(">>
                                         \o str(session.pendingData.seatType) \o <<")">>,
                             price |-> session.pendingData.seatPrice])],
           "seat_confirmed")
    ELSE IF isNegative(lower)
    THEN Result([session EXCEPT !.state = STATES.SEAT_TYPE], <<"choose_other_seat_type">>)
    ELSE Result(session, <<"seat_yes_or_no">>)

handleSeatConfirm(session, lower) ==
    IF isPositive(lower)
    THEN startNextService(
           [session EXCEPT
              !.completedServices =
                  Append(@, [type |-> "seat",
                             details |-> <<"S","e","a","t"," ">> \o str(session.pendingData.seatId) \o <<" ","(">>
                                         \o str(session.pendingData.seatType) \o <<")">>,
                             price |-> session.pendingData.seatPrice]),
              !.currentServiceIndex = @ + 1],
           "seat_confirmed")
    ELSE IF isNegative(lower)
    THEN Result([session EXCEPT !.state = STATES.SEAT_TYPE], <<"choose_other_seat_type">>)
    ELSE Result(session, <<"seat_yes_or_no">>)

\* message.match(/(\d+)/): the first run of digits, None when there is no digit
firstNumber(s) ==
    LET ds == {i \in 1..Len(s) : IsDigit(s[i])}
    IN IF ds = {} THEN None
       ELSE Some(SubSeq(s, Least(ds), RunEnd(DigitSet, s, Least(ds))))

\* A faulty variant of baggageCost: a started unit of 5 kg is not charged.
baggageCost_RoundsDown(kg) == (kg \div 5) * 500

\* Math.ceil(kg / 5) * 500
baggageCost(kg) == ((kg + 4) \div 5) * 500

\* A faulty variant of handleBaggageAmount: the number of kilograms is never taken.
handleBaggageAmount_NeverQuotes(session, message) ==
    Result(session, <<"baggage_kg_reprompt">>)

handleBaggageAmount(session, message) ==
    LET kgMatch == firstNumber(message)
    IN IF IsSet(kgMatch)
       THEN LET kg == parseInt(Val(kgMatch))
            IN Result([session EXCEPT !.pendingData.baggageKg = Some(kg),
                                      !.pendingData.baggageCost = Some(baggageCost(kg)),
                                      !.state = STATES.BAGGAGE_CONFIRM],
                      <<"quote_baggage">>)
       ELSE Result(session, <<"baggage_kg_reprompt">>)

\* A faulty variant of handleBaggageConfirm: the baggage is added whatever the answer.
handleBaggageConfirm_AddsOnNo(session, lower) ==
    IF isPositive(lower) \/ isNegative(lower)
    THEN startNextService(
           [session EXCEPT
              !.completedServices =
                  Append(@, [type |-> "baggage",
                             details |-> <<"b","a","g","g","a","g","e">>,
                             price |-> session.pendingData.baggageCost]),
              !.currentServiceIndex = @ + 1],
           "baggage_added")
    ELSE Result(session, <<"baggage_yes_or_no">>)

handleBaggageConfirm(session, lower) ==
    IF isPositive(lower)
    THEN startNextService(
           [session EXCEPT
              !.completedServices =
                  Append(@, [type |-> "baggage",
                             details |-> (IF IsSet(session.pendingData.baggageKg)
                                          THEN numToString(Val(session.pendingData.baggageKg))
                                          ELSE <<"u","n","d","e","f","i","n","e","d">>) \o <<" ","k","g"," ","e","x","t","r","a"," ","b","a","g","g","a","g","e">>,
                             price |-> session.pendingData.baggageCost]),
              !.currentServiceIndex = @ + 1],
           "baggage_added")
    ELSE IF isNegative(lower)
    THEN startNextService([session EXCEPT !.currentServiceIndex = @ + 1], "no_problem")
    ELSE Result(session, <<"baggage_yes_or_no">>)

\* A faulty variant of handlePriorityConfirm: a declined service is offered again.
handlePriorityConfirm_RepeatsOnNo(session, lower) ==
    IF isPositive(lower)
    THEN startNextService(
           [session EXCEPT
              !.completedServices =
                  Append(@, [type |-> "priority",
                             details |-> <<"P","r","i","o","r","i","t","y"," ","c","h","e","c","k","-","i","n"," ","a","n","d"," ","b","o","a","r","d","i","n","g">>,
                             price |-> Some(0)]),
              !.currentServiceIndex = @ + 1],
           "priority_active")
    ELSE IF isNegative(lower)
    THEN startNextService(session, "no_problem")
    ELSE Result(session, <<"priority_yes_or_no">>)

handlePriorityConfirm(session, lower) ==
    IF isPositive(lower)
    THEN startNextService(
           [session EXCEPT
              !.completedServices =
                  Append(@, [type |-> "priority",
                             details |-> <<"P","r","i","o","r","i","t","y"," ","c","h","e","c","k","-","i","n"," ","a","n","d"," ","b","o","a","r","d","i","n","g">>,
                             price |-> Some(0)]),
              !.currentServiceIndex = @ + 1],
           "priority_active")
    ELSE IF isNegative(lower)
    THEN startNextService([session EXCEPT !.currentServiceIndex = @ + 1], "no_problem")
    ELSE Result(session, <<"priority_yes_or_no">>)

\* [A-Z][a-z]+ under the i flag can start at q: two letters
canWord(s, q) == q + 1 <= Len(s) /\ IsLetter(s[q]) /\ IsLetter(s[q + 1])

\* the end of [A-Z][a-z]+(?:\s+[A-Z][a-z]+)* matched greedily from q
RECURSIVE wordsEnd(_, _)
wordsEnd(s, q) ==
    LET e == RunEnd(LetterSet, s, q)
        w == RunEnd(SpaceSet, s, e + 1)
    IN IF w >= e + 1 /\ canWord(s, w + 1) THEN wordsEnd(s, w + 1) ELSE e

\* where the name starts after the title, p being the position after mr or mrs: \.?\s*
afterTitle(s, p) ==
    LET d == IF p <= Len(s) /\ s[p] = "." THEN p + 1 ELSE p
    IN RunEnd(SpaceSet, s, d) + 1

\* message.match(/(?:mrs?\.?\s*)?([A-Z][a-z]+(?:\s+[A-Z][a-z]+)*)/i)[0]
matchPassengerName(s) ==
    LET starts == {i \in 1..Len(s) : canWord(s, i)}
    IN IF starts = {} THEN None
       ELSE LET i == Least(starts)
                lower == toLowerCase(s)
                isMr == At(lower, i, <<"m","r">>)
                qS == IF isMr /\ At(lower, i + 2, <<"s">>) THEN afterTitle(s, i + 3) ELSE 0
                qN == IF isMr THEN afterTitle(s, i + 2) ELSE 0
                q == IF qS > 0 /\ canWord(s, qS) THEN qS
                     ELSE IF qN > 0 /\ canWord(s, qN) THEN qN
                     ELSE i
            IN Some(SubSeq(s, i, wordsEnd(s, q)))

\* A faulty variant of handleWheelchairName: the assistance type is asked for whether
\* or not a name was heard.
handleWheelchairName_AsksTypeUnnamed(session, message) ==
    Result([session EXCEPT !.pendingData.wheelchairName = matchPassengerName(message),
                           !.state = STATES.WHEELCHAIR_TYPE],
           <<"ask_assistance_type">>)

handleWheelchairName(session, message) ==
    LET nameMatch == matchPassengerName(message)
    IN IF IsSet(nameMatch)
       THEN Result([session EXCEPT !.pendingData.wheelchairName = nameMatch,
                                   !.state = STATES.WHEELCHAIR_TYPE],
                   <<"ask_assistance_type">>)
       ELSE Result(session, <<"wheelchair_name_reprompt">>)

assistanceTypeOf(lower) ==
    IF includes(lower, <<"g","a","t","e">>) /\ includes(lower, <<"g","a","t","e">>) THEN <<"g","a","t","e","-","t","o","-","g","a","t","e">>
    ELSE IF includes(lower, <<"b","o","a","r","d","i","n","g">>) THEN <<"c","h","e","c","k","-","i","n"," ","t","o"," ","b","o","a","r","d","i","n","g">>
    ELSE IF includes(lower, <<"c","h","e","c","k","-","i","n">>) \/ includes(lower, <<"d","e","s","t","i","n","a","t","i","o","n">>)
            \/ includes(lower, <<"f","u","l","l">>) \/ includes(lower, <<"a","l","l">>)
    THEN <<"f","u","l","l"," ","a","s","s","i","s","t","a","n","c","e"," ","f","r","o","m"," ","c","h","e","c","k","-","i","n"," ","t","o"," ","d","e","s","t","i","n","a","t","i","o","n">>
    ELSE <<"f","u","l","l"," ","a","s","s","i","s","t","a","n","c","e">>

\* A faulty variant of handleWheelchairType: the cursor is advanced twice.
handleWheelchairType_SkipsNext(session, message) ==
    startNextService(
        [session EXCEPT
           !.completedServices =
               Append(@, [type |-> "wheelchair",
                          details |-> <<"W","h","e","e","l","c","h","a","i","r"," ","f","o","r"," ">> \o str(session.pendingData.wheelchairName)
                                      \o <<" ","(">> \o assistanceTypeOf(toLowerCase(message)) \o <<")">>,
                          price |-> Some(0)]),
           !.currentServiceIndex = @ + 2],
        "wheelchair_arranged")

handleWheelchairType(session, message) ==
    startNextService(
        [session EXCEPT
           !.completedServices =
               Append(@, [type |-> "wheelchair",
                          details |-> <<"W","h","e","e","l","c","h","a","i","r"," ","f","o","r"," ">> \o str(session.pendingData.wheelchairName)
                                      \o <<" ","(">> \o assistanceTypeOf(toLowerCase(message)) \o <<")">>,
                          price |-> Some(0)]),
           !.currentServiceIndex = @ + 1],
        "wheelchair_arranged")

BreedWords == <<<<"l","a","b","r","a","d","o","r">>, <<"r","e","t","r","i","e","v","e","r">>, <<"p","o","o","d","l","e">>, <<"b","e","a","g","l","e">>, <<"b","u","l","l","d","o","g">>, <<"h","u","s","k","y">>, <<"g","o","l","d","e","n">>,
                <<"p","e","r","s","i","a","n">>, <<"s","i","a","m","e","s","e">>, <<"c","a","t">>, <<"d","o","g">>>>

\* the end of a breed name matched at i, 0 when there is none: one of the words, or
\* german\s*shepherd (lower is s in lower case: the i flag)
breedEnd(s, lower, i) ==
    LET g == RunEnd(SpaceSet, s, i + 6)
    IN IF \E j \in 1..Len(BreedWords) : At(lower, i, BreedWords[j])
       THEN i + Len(BreedWords[CHOOSE j \in 1..Len(BreedWords) : At(lower, i, BreedWords[j])]) - 1
       ELSE IF At(lower, i, <<"g","e","r","m","a","n">>) /\ At(lower, g + 1, <<"s","h","e","p","h","e","r","d">>) THEN g + 8
       ELSE 0

\* message.match(/(labrador|...|cat|dog)/i)[1]
matchBreed(s) ==
    LET lower == toLowerCase(s)
        ps == {i \in 1..Len(s) : breedEnd(s, lower, i) > 0}
    IN IF ps = {} THEN None ELSE Some(SubSeq(s, Least(ps), breedEnd(s, lower, Least(ps))))

handlePetDetails(session, message) ==
    LET breedMatch == matchBreed(message)
        weightMatch == firstNumber(message)
    IN IF IsSet(breedMatch) \/ IsSet(weightMatch)
       THEN Result([session EXCEPT
                      !.pendingData.petBreed = IF IsSet(breedMatch) THEN breedMatch ELSE Some(<<"p","e","t">>),
                      !.pendingData.petWeight = IF IsSet(weightMatch) THEN weightMatch ELSE Some(<<"u","n","k","n","o","w","n">>),
                      !.state = STATES.WHATSAPP_CONFIRM],
                   <<"pet_specialist_offer_summary">>)
       ELSE Result(session, <<"pet_details_reprompt">>)

\* ${value} of a field that createSession sets to null
strOrNull(o) == IF IsSet(o) THEN Val(o) ELSE <<"n","u","l","l">>

\* The summary is text built line by line. A line is modelled by the name of its
\* template and the values put into it: a text, an amount, and whether the line says FREE.
summaryLine(line, text, amount, free) ==
    [line |-> line, text |-> text, amount |-> amount, free |-> free]

\* if (s.price > 0): an unset price compares false
isCharged(price) == IsSet(price) /\ Val(price) > 0

\* "✓ details - Rs. price" or "✓ details - FREE"
serviceLine(s) ==
    IF isCharged(s.price)
    THEN summaryLine("service", s.details, Val(s.price), FALSE)
    ELSE summaryLine("service", s.details, 0, TRUE)

\* total += s.price over the entries with a positive price
RECURSIVE summaryTotal(_)
summaryTotal(completedServices) ==
    IF completedServices = <<>> THEN 0
    ELSE (IF isCharged(Head(completedServices).price)
          THEN Val(Head(completedServices).price) ELSE 0)
         + summaryTotal(Tail(completedServices))

\* A faulty variant of showsTotal: the total is printed when nothing is due, too.
showsTotal_Always(total) == total >= 0

\* if (total > 0)
showsTotal(total) == total > 0

generateWhatsappSummary(session) ==
    LET head == << summaryLine("title", <<>>, 0, FALSE),
                   summaryLine("pnr", strOrNull(session.pnr), 0, FALSE),
                   summaryLine("passenger", strOrNull(session.customerName), 0, FALSE) >>
        flight == IF IsSet(session.booking)
                  THEN LET f == Val(session.booking).flight
                       IN << summaryLine("flight", <<>>, 0, FALSE),
                             summaryLine("route", f.originCity \o <<"→">> \o f.destinationCity, 0, FALSE),
                             summaryLine("date", f.date, 0, FALSE) >>
                  ELSE <<>>
        n == Len(session.completedServices)
        total == summaryTotal(session.completedServices)
        services ==
            IF n > 0
            THEN << summaryLine("services_added", <<>>, 0, FALSE) >>
                 \o SubSeq([i \in 1..n |-> serviceLine(session.completedServices[i])], 1, n)
                 \o (IF showsTotal(total)
                     THEN << summaryLine("total", <<>>, total, FALSE),
                             summaryLine("pay_at", strOrNull(session.pnr), 0, FALSE) >>
                     ELSE <<>>)
            ELSE <<>>
    IN head \o flight \o services

\* A faulty variant of needsTransfer: the unknown requests are not looked at.
needsTransfer_PetOnly(session) == IsSet(session.pendingData.petBreed)

\* session.pendingData.petBreed || session.unknownRequests.length > 0
needsTransfer(session) ==
    \/ (IsSet(session.pendingData.petBreed) /\ Val(session.pendingData.petBreed) # <<>>)
    \/ Len(session.unknownRequests) > 0

\* A faulty variant of handleWhatsappConfirm: a wish for something else is taken as a no.
handleWhatsappConfirm_NeverReturns(session, lower) ==
    IF isPositive(lower)
    THEN IF needsTransfer(session)
         THEN Result([session EXCEPT !.state = STATES.TRANSFER], <<"summary_sent_transfer">>)
         ELSE Result([session EXCEPT !.state = STATES.COMPLETED], <<"summary_sent_goodbye">>)
    ELSE IF isNegative(lower) \/ includes(lower, <<"e","l","s","e">>) \/ includes(lower, <<"m","o","r","e">>)
    THEN IF needsTransfer(session)
         THEN Result([session EXCEPT !.state = STATES.TRANSFER], <<"transfer">>)
         ELSE Result([session EXCEPT !.state = STATES.COMPLETED], <<"goodbye">>)
    ELSE Result(session, <<"summary_yes_or_no">>)

handleWhatsappConfirm(session, lower) ==
    IF isPositive(lower)
    THEN IF needsTransfer(session)
         THEN Result([session EXCEPT !.state = STATES.TRANSFER], <<"summary_sent_transfer">>)
         ELSE Result([session EXCEPT !.state = STATES.COMPLETED], <<"summary_sent_goodbye">>)
    ELSE IF isNegative(lower) \/ includes(lower, <<"e","l","s","e">>) \/ includes(lower, <<"m","o","r","e">>)
    THEN IF includes(lower, <<"e","l","s","e">>) \/ includes(lower, <<"m","o","r","e">>) \/ includes(lower, <<"a","n","o","t","h","e","r">>)
         THEN Result([session EXCEPT !.state = STATES.WAITING_SERVICE_CHOICE], <<"what_else">>)
         ELSE IF needsTransfer(session)
         THEN Result([session EXCEPT !.state = STATES.TRANSFER], <<"transfer">>)
         ELSE Result([session EXCEPT !.state = STATES.COMPLETED], <<"goodbye">>)
    ELSE Result(session, <<"summary_yes_or_no">>)

\* A faulty variant of the default branch: a session that ended still answers the
\* WhatsApp question.
unhandledState_StillAnswers(session, lower) == handleWhatsappConfirm(session, lower)

\* the default branch of processMessage: the states no handler owns
unhandledState(session, lower) == Result(session, <<"did_not_understand">>)

processMessage(session, message) ==
    LET lower == trim(toLowerCase(message))
    IN CASE session.state = STATES.WAITING_NAME -> handleName(session, message)
         [] session.state = STATES.WAITING_SERVICE_CHOICE -> handleServiceChoice(session, message)
         [] session.state = STATES.WAITING_PNR -> handlePnr(session, message)
         [] session.state = STATES.CONFIRMING_FLIGHT -> handleFlightConfirmation(session, lower)
         [] session.state = STATES.SEAT_TYPE -> handleSeatType(session, lower)
         [] session.state = STATES.SEAT_CONFIRM -> handleSeatConfirm(session, lower)
         [] session.state = STATES.BAGGAGE_AMOUNT -> handleBaggageAmount(session, message)
         [] session.state = STATES.BAGGAGE_CONFIRM -> handleBaggageConfirm(session, lower)
         [] session.state = STATES.PRIORITY_CONFIRM -> handlePriorityConfirm(session, lower)
         [] session.state = STATES.WHEELCHAIR_NAME -> handleWheelchairName(session, message)
         [] session.state = STATES.WHEELCHAIR_TYPE -> handleWheelchairType(session, message)
         [] session.state = STATES.PET_DETAILS -> handlePetDetails(session, message)
         [] session.state = STATES.WHATSAPP_CONFIRM -> handleWhatsappConfirm(session, lower)
         [] OTHER -> unhandledState(session, lower)
(***************************************************************************)
(* The browser client: AirlineVoiceApp (public/js/app.js) and the          *)
(* VoiceEngine it drives (voice-engine.js).  The page runs on one thread:  *)
(* an action is one run of a handler or of an async function from one      *)
(* await to the next.  tasks holds the async functions that are suspended: *)
(* at "fetch" the /api/chat request is outstanding, at "speak" the reply's *)
(* utterance is playing, at "cancelled" the utterance was cancelled and    *)
(* its closing event is still to be delivered.                             *)
(***************************************************************************)
\* the calls and the suspended async functions the model follows
MaxCalls == 2
MaxTasks == 3

\* 'session_' + Date.now()
generateSessionId(time) == <<"session_", time>>

\* constructor() of AirlineVoiceApp
newApp == [sessionId |-> None, isCallActive |-> FALSE, isProcessing |-> FALSE]

\* constructor() of VoiceEngine, with the browser's recognition object idle and no
\* silence timer or restart timer pending
newVoiceEngine ==
    [isListening |-> FALSE, isSpeaking |-> FALSE, recognition |-> "idle",
     silenceTimer |-> FALSE, restartTimer |-> FALSE]

\* startListening(): recognition.start() throws on a recognition that is not idle,
\* which is caught
startListening(v) ==
    IF ~v.isListening /\ ~v.isSpeaking /\ v.recognition = "idle"
    THEN [v EXCEPT !.recognition = "starting"]
    ELSE v

\* stopListening(): a recognition stopped before its start event may still deliver it
stopListening(v) ==
    [v EXCEPT !.recognition = CASE @ = "starting" -> "aborting"
                                [] @ = "running" -> "stopping"
                                [] OTHER -> @,
              !.isListening = FALSE]

\* synthesis.cancel(): the utterances that play are cancelled
cancelled(ts) == {IF t.at = "speak" THEN [t EXCEPT !.at = "cancelled"] ELSE t : t \in ts}

\* the first lines of speak(text)
speaking(v) == [v EXCEPT !.isSpeaking = TRUE]

\* stopSpeaking()
stopSpeaking(v) == [v EXCEPT !.isSpeaking = FALSE]

freeTaskId == Least((1..MaxTasks) \ {t.id : t \in tasks})

\* an /api/chat request is outstanding
outstanding(t) == t.at = "fetch"

\* startCall() up to its fetch; the clock has moved on since the call before
startCall ==
    /\ ~app.isCallActive
    /\ now < MaxCalls
    /\ Cardinality(tasks) < MaxTasks
    /\ now' = now + 1
    /\ app' = [sessionId |-> Some(generateSessionId(now')), isCallActive |-> TRUE,
               isProcessing |-> TRUE]
    /\ tasks' = tasks \cup {[id |-> freeTaskId, kind |-> "startCall",
                             sessionId |-> app'.sessionId, at |-> "fetch"]}
    /\ UNCHANGED <<voice, exceptApp>>

\* endCall()
endCall ==
    /\ app.isCallActive
    /\ app' = [sessionId |-> None, isCallActive |-> FALSE, isProcessing |-> FALSE]
    /\ voice' = stopSpeaking(stopListening(voice))
    /\ tasks' = cancelled(tasks)
    /\ UNCHANGED <<now, exceptApp>>

\* processMessage(text) goes on to its fetch: if (this.isProcessing || !text) return
sendsMessage(a) == ~a.isProcessing

\* processMessage(text) up to its fetch, for a text that is not empty, called with the
\* voice engine as v
appProcessMessage(v) ==
    IF sendsMessage(app)
    THEN /\ Cardinality(tasks) < MaxTasks
         /\ app' = [app EXCEPT !.isProcessing = TRUE]
         /\ voice' = stopListening(v)
         /\ tasks' = tasks \cup {[id |-> freeTaskId, kind |-> "processMessage",
                                  sessionId |-> app.sessionId, at |-> "fetch"]}
    ELSE /\ voice' = v
         /\ UNCHANGED <<app, tasks>>

\* sendTextMessage() and quickSend(text): typed input (one that arrives while a message
\* is processed is dropped and changes nothing)
sendTextMessage ==
    /\ app.isCallActive
    /\ sendsMessage(app)
    /\ appProcessMessage(voice)
    /\ UNCHANGED <<now, exceptApp>>

\* recognition.onresult with a final result: the silence timer is set
onresult ==
    /\ voice.recognition \in {"running", "stopping"}
    /\ ~voice.silenceTimer
    /\ voice' = [voice EXCEPT !.silenceTimer = TRUE]
    /\ UNCHANGED <<app, tasks, now, exceptApp>>

\* the silence timer fires: onResult(cleaned, true) calls processMessage
silenceTimer ==
    /\ voice.silenceTimer
    /\ appProcessMessage([voice EXCEPT !.silenceTimer = FALSE])
    /\ UNCHANGED <<now, exceptApp>>

\* startPushToTalk()
startPushToTalk ==
    /\ app.isCallActive
    /\ ~app.isProcessing
    /\ voice' = startListening(stopSpeaking(voice))
    /\ tasks' = cancelled(tasks)
    /\ voice' # voice \/ tasks' # tasks
    /\ UNCHANGED <<app, now, exceptApp>>

\* recognition.onstart
onstart ==
    /\ voice.recognition \in {"starting", "aborting"}
    /\ voice' = [voice EXCEPT !.recognition = IF @ = "starting" THEN "running" ELSE "stopping",
                              !.isListening = TRUE]
    /\ UNCHANGED <<app, tasks, now, exceptApp>>

\* recognition.onend, after stop() or when the browser ends the recognition, and the
\* app's onEnd callback, which sets the restart timer
onend ==
    /\ voice.recognition \in {"running", "stopping", "aborting"}
    /\ voice' = [voice EXCEPT !.recognition = "idle",
                              !.isListening = FALSE,
                              !.restartTimer = @ \/ (app.isCallActive /\ ~app.isProcessing
                                                     /\ ~voice.isSpeaking)]
    /\ UNCHANGED <<app, tasks, now, exceptApp>>

\* the 300 ms timer of the onEnd callback fires
restartTimer ==
    /\ voice.restartTimer
    /\ voice' = [(IF app.isCallActive /\ ~app.isProcessing
                  THEN startListening(voice) ELSE voice) EXCEPT !.restartTimer = FALSE]
    /\ UNCHANGED <<app, tasks, now, exceptApp>>

\* startCall() from its fetch to its speak: the greeting, or the fallback of the catch
\* block, is spoken
startCallFetched ==
    \E t \in tasks :
        /\ t.kind = "startCall"
        /\ outstanding(t)
        /\ tasks' = cancelled(tasks \ {t}) \cup {[t EXCEPT !.at = "speak"]}
        /\ voice' = speaking(voice)
        /\ UNCHANGED <<app, now, exceptApp>>

\* the last lines of processMessage(text)
processMessageEnds(a, v) ==
    [app |-> [a EXCEPT !.isProcessing = FALSE],
     voice |-> IF a.isCallActive THEN startListening(v) ELSE v]

\* processMessage(text) from its fetch on: a reply with a response is spoken; a reply
\* without one (the 400 of a request without sessionId) or a failed fetch ends the
\* function
processMessageFetched ==
    \E t \in tasks :
        /\ t.kind = "processMessage"
        /\ outstanding(t)
        /\ \/ /\ tasks' = cancelled(tasks \ {t}) \cup {[t EXCEPT !.at = "speak"]}
              /\ voice' = speaking(voice)
              /\ UNCHANGED app
           \/ /\ tasks' = tasks \ {t}
              /\ app' = processMessageEnds(app, voice).app
              /\ voice' = processMessageEnds(app, voice).voice
        /\ UNCHANGED <<now, exceptApp>>

\* utterance.onend / utterance.onerror, and the rest of the function that awaited
\* speak(); the closing event of a cancelled utterance comes before the end of the one
\* that replaced it
utteranceEnds ==
    \E t \in tasks :
        /\ \/ t.at = "cancelled"
           \/ t.at = "speak" /\ \A u \in tasks : u.at # "cancelled"
        /\ tasks' = tasks \ {t}
        /\ IF t.kind = "startCall"
           THEN /\ app' = [app EXCEPT !.isProcessing = FALSE]
                /\ voice' = startListening(stopSpeaking(voice))
           ELSE /\ app' = processMessageEnds(app, stopSpeaking(voice)).app
                /\ voice' = processMessageEnds(app, stopSpeaking(voice)).voice
        /\ UNCHANGED <<now, exceptApp>>

\* the events of the page, in any order
NextClient ==
    \/ startCall
    \/ endCall
    \/ sendTextMessage
    \/ onresult
    \/ silenceTimer
    \/ startPushToTalk
    \/ onstart
    \/ onend
    \/ restartTimer
    \/ startCallFetched
    \/ processMessageFetched
    \/ utteranceEnds

(***************************************************************************)
(* Regular expressions of the client, as String.prototype.match runs them: *)
(* a backtracking search that tries the alternatives of a pattern in       *)
(* order, a quantifier greedily, and the start positions left to right.    *)
(* A pattern is a tree: "chars" (a run of single characters, each given as *)
(* the set of characters it accepts, both cases under the i flag), "any"   *)
(* (.), "seq", "alt", "star" (zero or more; one-or-more and the bounded    *)
(* quantifiers are written out with it and "alt"), "grp" (the capturing    *)
(* group 1), "bol" (^) and "eol" ($).  A thread is where a partial match   *)
(* stands: pos, the next character to read, and from..to, the bounds of    *)
(* group 1 (0 while unset).  reMatch gives the threads that leave the      *)
(* pattern, in the order the backtracking search would try them.           *)
(***************************************************************************)
RECURSIVE reMatch(_, _, _)
RECURSIVE reEach(_, _, _, _)
RECURSIVE reSeq(_, _, _, _)
RECURSIVE reAlt(_, _, _, _)

\* the threads of a list that have read something since position pos
moved(threads, pos) == SelectSeq(threads, LAMBDA th : th.pos > pos)

\* pattern r continued from each thread of the list, from the k-th on
reEach(r, s, threads, k) ==
    IF k > Len(threads) THEN <<>>
    ELSE reMatch(r, s, threads[k]) \o reEach(r, s, threads, k + 1)

\* the patterns rs[k], rs[k+1], ... one after the other
reSeq(rs, k, s, threads) ==
    IF k > Len(rs) \/ threads = <<>> THEN threads
    ELSE reSeq(rs, k + 1, s, reEach(rs[k], s, threads, 1))

\* the alternatives rs[k], rs[k+1], ... in order
reAlt(rs, k, s, th) ==
    IF k > Len(rs) THEN <<>>
    ELSE reMatch(rs[k], s, th) \o reAlt(rs, k + 1, s, th)

reMatch(r, s, th) ==
    CASE r.op = "chars" ->
            LET n == Len(r.sets)
            IN IF /\ th.pos + n - 1 <= Len(s)
                  /\ \A k \in 1..n : s[th.pos + k - 1] \in r.sets[k]
               THEN <<[th EXCEPT !.pos = @ + n]>>
               ELSE <<>>
      [] r.op = "any" -> IF th.pos <= Len(s) THEN <<[th EXCEPT !.pos = @ + 1]>> ELSE <<>>
      [] r.op = "bol" -> IF th.pos = 1 THEN <<th>> ELSE <<>>
      [] r.op = "eol" -> IF th.pos = Len(s) + 1 THEN <<th>> ELSE <<>>
      [] r.op = "seq" -> reSeq(r.rs, 1, s, <<th>>)
      [] r.op = "alt" -> reAlt(r.rs, 1, s, th)
      [] r.op = "star" -> reEach(r, s, moved(reMatch(r.r, s, th), th.pos), 1) \o <<th>>
      [] r.op = "grp" ->
            LET inner == reMatch(r.r, s, [th EXCEPT !.from = th.pos])
            IN [k \in 1..Len(inner) |-> [inner[k] EXCEPT !.to = inner[k].pos]]

\* the threads of a match that starts at position i
reAt(r, s, i) == reMatch(r, s, [pos |-> i, from |-> 0, to |-> 0])

\* s.match(r) for a pattern without the g flag: None, or the match found first, with
\* index (1-based), match[0] as whole and match[1] as group (None when group 1 took no
\* part)
match(s, r) ==
    LET starts == {i \in 1..Len(s) + 1 : reAt(r, s, i) # <<>>}
    IN IF starts = {} THEN None
       ELSE LET i == Least(starts)
                th == Head(reAt(r, s, i))
            IN Some([index |-> i,
                     whole |-> SubSeq(s, i, th.pos - 1),
                     group |-> IF th.from = 0 THEN None
                               ELSE Some(SubSeq(s, th.from, th.to - 1))])

\* r.test(s)
test(r, s) == IsSet(match(s, r))

(***************************************************************************)
(* IntentEngine (public/js/intent-engine.js).                              *)
(***************************************************************************)
\* this.intentPatterns, in the order of the object's keys
intentPatterns ==
    <<[name |-> "greeting", priority |-> 1, extractEntity |-> None,
       patterns |-> <<[op |-> "seq", rs |-> <<[op |-> "bol"], [op |-> "grp", r |-> [op |-> "alt", rs |-> <<[op |-> "chars", sets |-> <<{"H","h"}, {"I","i"}>>], [op |-> "chars", sets |-> <<{"H","h"}, {"E","e"}, {"L","l"}, {"L","l"}, {"O","o"}>>], [op |-> "chars", sets |-> <<{"H","h"}, {"E","e"}, {"Y","y"}>>], [op |-> "chars", sets |-> <<{"G","g"}, {"O","o"}, {"O","o"}, {"D","d"}, {" "}, {"M","m"}, {"O","o"}, {"R","r"}, {"N","n"}, {"I","i"}, {"N","n"}, {"G","g"}>>], [op |-> "chars", sets |-> <<{"G","g"}, {"O","o"}, {"O","o"}, {"D","d"}, {" "}, {"A","a"}, {"F","f"}, {"T","t"}, {"E","e"}, {"R","r"}, {"N","n"}, {"O","o"}, {"O","o"}, {"N","n"}>>], [op |-> "chars", sets |-> <<{"G","g"}, {"O","o"}, {"O","o"}, {"D","d"}, {" "}, {"E","e"}, {"V","v"}, {"E","e"}, {"N","n"}, {"I","i"}, {"N","n"}, {"G","g"}>>]>>]]>>]>>],
      [name |-> "pnr_provide", priority |-> 10, extractEntity |-> Some("pnr"),
       patterns |-> <<[op |-> "seq", rs |-> <<[op |-> "chars", sets |-> <<{"P","p"}, {"N","n"}, {"R","r"}>>], [op |-> "star", r |-> [op |-> "chars", sets |-> <<{" "}>>]], [op |-> "alt", rs |-> <<[op |-> "alt", rs |-> <<[op |-> "chars", sets |-> <<{"I","i"}, {"S","s"}>>], [op |-> "chars", sets |-> <<{"N","n"}, {"U","u"}, {"M","m"}, {"B","b"}, {"E","e"}, {"R","r"}>>]>>], [op |-> "seq", rs |-> <<>>]>>], [op |-> "star", r |-> [op |-> "chars", sets |-> <<{" "}>>]], [op |-> "grp", r |-> [op |-> "seq", rs |-> <<[op |-> "chars", sets |-> <<(UpperSet \cup LowerSet \cup DigitSet)>>], [op |-> "chars", sets |-> <<(UpperSet \cup LowerSet \cup DigitSet)>>], [op |-> "chars", sets |-> <<(UpperSet \cup LowerSet \cup DigitSet)>>], [op |-> "chars", sets |-> <<(UpperSet \cup LowerSet \cup DigitSet)>>], [op |-> "chars", sets |-> <<(UpperSet \cup LowerSet \cup DigitSet)>>], [op |-> "chars", sets |-> <<(UpperSet \cup LowerSet \cup DigitSet)>>]>>]]>>],
                      [op |-> "seq", rs |-> <<[op |-> "chars", sets |-> <<{"M","m"}, {"Y","y"}>>], [op |-> "star", r |-> [op |-> "chars", sets |-> <<{" "}>>]], [op |-> "alt", rs |-> <<[op |-> "chars", sets |-> <<{"P","p"}, {"N","n"}, {"R","r"}>>], [op |-> "chars", sets |-> <<{"B","b"}, {"O","o"}, {"O","o"}, {"K","k"}, {"I","i"}, {"N","n"}, {"G","g"}>>]>>], [op |-> "star", r |-> [op |-> "chars", sets |-> <<{" "}>>]], [op |-> "alt", rs |-> <<[op |-> "alt", rs |-> <<[op |-> "chars", sets |-> <<{"I","i"}, {"S","s"}>>], [op |-> "chars", sets |-> <<{"N","n"}, {"U","u"}, {"M","m"}, {"B","b"}, {"E","e"}, {"R","r"}>>]>>], [op |-> "seq", rs |-> <<>>]>>], [op |-> "star", r |-> [op |-> "chars", sets |-> <<{" "}>>]], [op |-> "grp", r |-> [op |-> "seq", rs |-> <<[op |-> "chars", sets |-> <<(UpperSet \cup LowerSet \cup DigitSet)>>], [op |-> "chars", sets |-> <<(UpperSet \cup LowerSet \cup DigitSet)>>], [op |-> "chars", sets |-> <<(UpperSet \cup LowerSet \cup DigitSet)>>], [op |-> "chars", sets |-> <<(UpperSet \cup LowerSet \cup DigitSet)>>], [op |-> "chars", sets |-> <<(UpperSet \cup LowerSet \cup DigitSet)>>], [op |-> "chars", sets |-> <<(UpperSet \cup LowerSet \cup DigitSet)>>]>>]]>>],
                      [op |-> "grp", r |-> [op |-> "seq", rs |-> <<[op |-> "seq", rs |-> <<[op |-> "chars", sets |-> <<(UpperSet \cup LowerSet)>>], [op |-> "chars", sets |-> <<(UpperSet \cup LowerSet)>>], [op |-> "chars", sets |-> <<(UpperSet \cup LowerSet)>>]>>], [op |-> "seq", rs |-> <<[op |-> "chars", sets |-> <<DigitSet>>], [op |-> "chars", sets |-> <<DigitSet>>], [op |-> "chars", sets |-> <<DigitSet>>]>>]>>]]>>],
      [name |-> "seat_selection", priority |-> 8, extractEntity |-> Some("seatType"),
       patterns |-> <<[op |-> "seq", rs |-> <<[op |-> "alt", rs |-> <<[op |-> "chars", sets |-> <<{"W","w"}, {"A","a"}, {"N","n"}, {"T","t"}>>], [op |-> "chars", sets |-> <<{"N","n"}, {"E","e"}, {"E","e"}, {"D","d"}>>], [op |-> "chars", sets |-> <<{"L","l"}, {"I","i"}, {"K","k"}, {"E","e"}>>], [op |-> "chars", sets |-> <<{"B","b"}, {"O","o"}, {"O","o"}, {"K","k"}>>], [op |-> "chars", sets |-> <<{"S","s"}, {"E","e"}, {"L","l"}, {"E","e"}, {"C","c"}, {"T","t"}>>], [op |-> "chars", sets |-> <<{"G","g"}, {"E","e"}, {"T","t"}>>]>>], [op |-> "star", r |-> [op |-> "chars", sets |-> <<{" "}>>]], [op |-> "alt", rs |-> <<[op |-> "seq", rs |-> <<[op |-> "chars", sets |-> <<{"A","a"}>>], [op |-> "alt", rs |-> <<[op |-> "seq", rs |-> <<>>], [op |-> "chars", sets |-> <<{"N","n"}>>]>>]>>], [op |-> "seq", rs |-> <<>>]>>], [op |-> "star", r |-> [op |-> "chars", sets |-> <<{" "}>>]], [op |-> "grp", r |-> [op |-> "alt", rs |-> <<[op |-> "chars", sets |-> <<{"W","w"}, {"I","i"}, {"N","n"}, {"D","d"}, {"O","o"}, {"W","w"}>>], [op |-> "chars", sets |-> <<{"A","a"}, {"I","i"}, {"S","s"}, {"L","l"}, {"E","e"}>>], [op |-> "seq", rs |-> <<[op |-> "chars", sets |-> <<{"E","e"}, {"X","x"}, {"T","t"}, {"R","r"}, {"A","a"}>>], [op |-> "star", r |-> [op |-> "chars", sets |-> <<{" "}>>]], [op |-> "chars", sets |-> <<{"L","l"}, {"E","e"}, {"G","g"}, {"R","r"}, {"O","o"}, {"O","o"}, {"M","m"}>>]>>], [op |-> "chars", sets |-> <<{"M","m"}, {"I","i"}, {"D","d"}, {"D","d"}, {"L","l"}, {"E","e"}>>], [op |-> "chars", sets |-> <<{"P","p"}, {"R","r"}, {"E","e"}, {"M","m"}, {"I","i"}, {"U","u"}, {"M","m"}>>]>>]], [op |-> "star", r |-> [op |-> "chars", sets |-> <<{" "}>>]], [op |-> "chars", sets |-> <<{"S","s"}, {"E","e"}, {"A","a"}, {"T","t"}>>]>>],
                      [op |-> "seq", rs |-> <<[op |-> "chars", sets |-> <<{"S","s"}, {"E","e"}, {"A","a"}, {"T","t"}>>], [op |-> "star", r |-> [op |-> "chars", sets |-> <<{" "}>>]], [op |-> "chars", sets |-> <<{"S","s"}, {"E","e"}, {"L","l"}, {"E","e"}, {"C","c"}, {"T","t"}, {"I","i"}, {"O","o"}, {"N","n"}>>]>>],
                      [op |-> "seq", rs |-> <<[op |-> "chars", sets |-> <<{"S","s"}, {"E","e"}, {"L","l"}, {"E","e"}, {"C","c"}, {"T","t"}>>], [op |-> "star", r |-> [op |-> "chars", sets |-> <<{" "}>>]], [op |-> "alt", rs |-> <<[op |-> "alt", rs |-> <<[op |-> "chars", sets |-> <<{"M","m"}, {"Y","y"}>>], [op |-> "chars", sets |-> <<{"A","a"}>>]>>], [op |-> "seq", rs |-> <<>>]>>], [op |-> "star", r |-> [op |-> "chars", sets |-> <<{" "}>>]], [op |-> "chars", sets |-> <<{"S","s"}, {"E","e"}, {"A","a"}, {"T","t"}>>]>>],
                      [op |-> "seq", rs |-> <<[op |-> "grp", r |-> [op |-> "alt", rs |-> <<[op |-> "chars", sets |-> <<{"W","w"}, {"I","i"}, {"N","n"}, {"D","d"}, {"O","o"}, {"W","w"}>>], [op |-> "chars", sets |-> <<{"A","a"}, {"I","i"}, {"S","s"}, {"L","l"}, {"E","e"}>>], [op |-> "seq", rs |-> <<[op |-> "chars", sets |-> <<{"E","e"}, {"X","x"}, {"T","t"}, {"R","r"}, {"A","a"}>>], [op |-> "star", r |-> [op |-> "chars", sets |-> <<{" "}>>]], [op |-> "chars", sets |-> <<{"L","l"}, {"E","e"}, {"G","g"}, {"R","r"}, {"O","o"}, {"O","o"}, {"M","m"}>>]>>]>>]], [op |-> "star", r |-> [op |-> "chars", sets |-> <<{" "}>>]], [op |-> "alt", rs |-> <<[op |-> "chars", sets |-> <<{"S","s"}, {"E","e"}, {"A","a"}, {"T","t"}>>], [op |-> "chars", sets |-> <<{"P","p"}, {"L","l"}, {"E","e"}, {"A","a"}, {"S","s"}, {"E","e"}>>]>>]>>]>>],
      [name |-> "seat_confirm", priority |-> 5, extractEntity |-> None,
       patterns |-> <<[op |-> "seq", rs |-> <<[op |-> "chars", sets |-> <<{"Y","y"}, {"E","e"}, {"S","s"}>>], [op |-> "star", r |-> [op |-> "any"]], [op |-> "chars", sets |-> <<{"B","b"}, {"O","o"}, {"O","o"}, {"K","k"}>>]>>],
                      [op |-> "seq", rs |-> <<[op |-> "chars", sets |-> <<{"G","g"}, {"O","o"}>>], [op |-> "star", r |-> [op |-> "chars", sets |-> <<{" "}>>]], [op |-> "chars", sets |-> <<{"A","a"}, {"H","h"}, {"E","e"}, {"A","a"}, {"D","d"}>>]>>],
                      [op |-> "seq", rs |-> <<[op |-> "chars", sets |-> <<{"P","p"}, {"L","l"}, {"E","e"}, {"A","a"}, {"S","s"}, {"E","e"}>>], [op |-> "star", r |-> [op |-> "chars", sets |-> <<{" "}>>]], [op |-> "alt", rs |-> <<[op |-> "chars", sets |-> <<{"D","d"}, {"O","o"}>>], [op |-> "chars", sets |-> <<{"B","b"}, {"O","o"}, {"O","o"}, {"K","k"}>>]>>]>>],
                      [op |-> "seq", rs |-> <<[op |-> "bol"], [op |-> "chars", sets |-> <<{"Y","y"}, {"E","e"}, {"S","s"}>>]>>],
                      [op |-> "chars", sets |-> <<{"C","c"}, {"O","o"}, {"N","n"}, {"F","f"}, {"I","i"}, {"R","r"}, {"M","m"}>>],
                      [op |-> "seq", rs |-> <<[op |-> "chars", sets |-> <<{"T","t"}, {"H","h"}, {"A","a"}, {"T","t"}>>], [op |-> "alt", rs |-> <<[op |-> "any"], [op |-> "seq", rs |-> <<>>]>>], [op |-> "alt", rs |-> <<[op |-> "chars", sets |-> <<{"S","s"}>>], [op |-> "seq", rs |-> <<>>]>>], [op |-> "star", r |-> [op |-> "chars", sets |-> <<{" "}>>]], [op |-> "alt", rs |-> <<[op |-> "chars", sets |-> <<{"F","f"}, {"I","i"}, {"N","n"}, {"E","e"}>>], [op |-> "chars", sets |-> <<{"O","o"}, {"K","k"}>>], [op |-> "chars", sets |-> <<{"G","g"}, {"O","o"}, {"O","o"}, {"D","d"}>>]>>]>>]>>],
      [name |-> "baggage", priority |-> 8, extractEntity |-> Some("weight"),
       patterns |-> <<[op |-> "seq", rs |-> <<[op |-> "alt", rs |-> <<[op |-> "chars", sets |-> <<{"E","e"}, {"X","x"}, {"T","t"}, {"R","r"}, {"A","a"}>>], [op |-> "chars", sets |-> <<{"A","a"}, {"D","d"}, {"D","d"}>>], [op |-> "chars", sets |-> <<{"A","a"}, {"D","d"}, {"D","d"}, {"I","i"}, {"T","t"}, {"I","i"}, {"O","o"}, {"N","n"}, {"A","a"}, {"L","l"}>>]>>], [op |-> "star", r |-> [op |-> "chars", sets |-> <<{" "}>>]], [op |-> "alt", rs |-> <<[op |-> "chars", sets |-> <<{"B","b"}, {"A","a"}, {"G","g"}, {"G","g"}, {"A","a"}, {"G","g"}, {"E","e"}>>], [op |-> "chars", sets |-> <<{"L","l"}, {"U","u"}, {"G","g"}, {"G","g"}, {"A","a"}, {"G","g"}, {"E","e"}>>], [op |-> "chars", sets |-> <<{"B","b"}, {"A","a"}, {"G","g"}>>]>>]>>],
                      [op |-> "seq", rs |-> <<[op |-> "grp", r |-> [op |-> "seq", rs |-> <<[op |-> "chars", sets |-> <<DigitSet>>], [op |-> "star", r |-> [op |-> "chars", sets |-> <<DigitSet>>]]>>]], [op |-> "star", r |-> [op |-> "chars", sets |-> <<{" "}>>]], [op |-> "chars", sets |-> <<{"K","k"}>>], [op |-> "alt", rs |-> <<[op |-> "chars", sets |-> <<{"G","g"}>>], [op |-> "chars", sets |-> <<{"I","i"}, {"L","l"}, {"O","o"}>>], [op |-> "chars", sets |-> <<{"I","i"}, {"L","l"}, {"O","o"}, {"G","g"}, {"R","r"}, {"A","a"}, {"M","m"}>>]>>], [op |-> "alt", rs |-> <<[op |-> "chars", sets |-> <<{"S","s"}>>], [op |-> "seq", rs |-> <<>>]>>], [op |-> "star", r |-> [op |-> "chars", sets |-> <<{" "}>>]], [op |-> "alt", rs |-> <<[op |-> "alt", rs |-> <<[op |-> "chars", sets |-> <<{"E","e"}, {"X","x"}, {"T","t"}, {"R","r"}, {"A","a"}>>], [op |-> "chars", sets |-> <<{"A","a"}, {"D","d"}, {"D","d"}, {"I","i"}, {"T","t"}, {"I","i"}, {"O","o"}, {"N","n"}, {"A","a"}, {"L","l"}>>]>>], [op |-> "seq", rs |-> <<>>]>>]>>],
                      [op |-> "seq", rs |-> <<[op |-> "chars", sets |-> <<{"N","n"}, {"E","e"}, {"E","e"}, {"D","d"}>>], [op |-> "star", r |-> [op |-> "chars", sets |-> <<{" "}>>]], [op |-> "grp", r |-> [op |-> "seq", rs |-> <<[op |-> "chars", sets |-> <<DigitSet>>], [op |-> "star", r |-> [op |-> "chars", sets |-> <<DigitSet>>]]>>]], [op |-> "star", r |-> [op |-> "chars", sets |-> <<{" "}>>]], [op |-> "chars", sets |-> <<{"K","k"}>>], [op |-> "alt", rs |-> <<[op |-> "chars", sets |-> <<{"G","g"}>>], [op |-> "chars", sets |-> <<{"I","i"}, {"L","l"}, {"O","o"}>>]>>]>>],
                      [op |-> "seq", rs |-> <<[op |-> "chars", sets |-> <<{"B","b"}, {"A","a"}, {"G","g"}, {"G","g"}, {"A","a"}, {"G","g"}, {"E","e"}>>], [op |-> "star", r |-> [op |-> "chars", sets |-> <<{" "}>>]], [op |-> "alt", rs |-> <<[op |-> "chars", sets |-> <<{"O","o"}, {"F","f"}>>], [op |-> "seq", rs |-> <<>>]>>], [op |-> "star", r |-> [op |-> "chars", sets |-> <<{" "}>>]], [op |-> "grp", r |-> [op |-> "seq", rs |-> <<[op |-> "chars", sets |-> <<DigitSet>>], [op |-> "star", r |-> [op |-> "chars", sets |-> <<DigitSet>>]]>>]]>>]>>],
      [name |-> "priority_service", priority |-> 7, extractEntity |-> None,
       patterns |-> <<[op |-> "seq", rs |-> <<[op |-> "chars", sets |-> <<{"P","p"}, {"R","r"}, {"I","i"}, {"O","o"}, {"R","r"}, {"I","i"}, {"T","t"}, {"Y","y"}>>], [op |-> "star", r |-> [op |-> "chars", sets |-> <<{" "}>>]], [op |-> "alt", rs |-> <<[op |-> "seq", rs |-> <<[op |-> "chars", sets |-> <<{"C","c"}, {"H","h"}, {"E","e"}, {"C","c"}, {"K","k"}>>], [op |-> "alt", rs |-> <<[op |-> "any"], [op |-> "seq", rs |-> <<>>]>>], [op |-> "chars", sets |-> <<{"I","i"}, {"N","n"}>>]>>], [op |-> "chars", sets |-> <<{"B","b"}, {"O","o"}, {"A","a"}, {"R","r"}, {"D","d"}, {"I","i"}, {"N","n"}, {"G","g"}>>], [op |-> "chars", sets |-> <<{"S","s"}, {"E","e"}, {"R","r"}, {"V","v"}, {"I","i"}, {"C","c"}, {"E","e"}>>]>>]>>],
                      [op |-> "seq", rs |-> <<[op |-> "alt", rs |-> <<[op |-> "chars", sets |-> <<{"W","w"}, {"A","a"}, {"N","n"}, {"T","t"}>>], [op |-> "chars", sets |-> <<{"N","n"}, {"E","e"}, {"E","e"}, {"D","d"}>>], [op |-> "chars", sets |-> <<{"G","g"}, {"E","e"}, {"T","t"}>>]>>], [op |-> "star", r |-> [op |-> "chars", sets |-> <<{" "}>>]], [op |-> "chars", sets |-> <<{"P","p"}, {"R","r"}, {"I","i"}, {"O","o"}, {"R","r"}, {"I","i"}, {"T","t"}, {"Y","y"}>>]>>],
                      [op |-> "seq", rs |-> <<[op |-> "chars", sets |-> <<{"F","f"}, {"A","a"}, {"S","s"}, {"T","t"}>>], [op |-> "star", r |-> [op |-> "chars", sets |-> <<{" "}>>]], [op |-> "alt", rs |-> <<[op |-> "chars", sets |-> <<{"T","t"}, {"R","r"}, {"A","a"}, {"C","c"}, {"K","k"}>>], [op |-> "seq", rs |-> <<[op |-> "chars", sets |-> <<{"C","c"}, {"H","h"}, {"E","e"}, {"C","c"}, {"K","k"}>>], [op |-> "alt", rs |-> <<[op |-> "any"], [op |-> "seq", rs |-> <<>>]>>], [op |-> "chars", sets |-> <<{"I","i"}, {"N","n"}>>]>>]>>]>>]>>],
      [name |-> "wheelchair", priority |-> 8, extractEntity |-> Some("wheelchairType"),
       patterns |-> <<[op |-> "chars", sets |-> <<{"W","w"}, {"H","h"}, {"E","e"}, {"E","e"}, {"L","l"}, {"C","c"}, {"H","h"}, {"A","a"}, {"I","i"}, {"R","r"}>>],
                      [op |-> "seq", rs |-> <<[op |-> "alt", rs |-> <<[op |-> "chars", sets |-> <<{"S","s"}, {"P","p"}, {"E","e"}, {"C","c"}, {"I","i"}, {"A","a"}, {"L","l"}>>], [op |-> "chars", sets |-> <<{"M","m"}, {"O","o"}, {"B","b"}, {"I","i"}, {"L","l"}, {"I","i"}, {"T","t"}, {"Y","y"}>>]>>], [op |-> "star", r |-> [op |-> "chars", sets |-> <<{" "}>>]], [op |-> "chars", sets |-> <<{"A","a"}, {"S","s"}, {"S","s"}, {"I","i"}, {"S","s"}, {"T","t"}, {"A","a"}, {"N","n"}, {"C","c"}, {"E","e"}>>]>>],
                      [op |-> "seq", rs |-> <<[op |-> "alt", rs |-> <<[op |-> "chars", sets |-> <<{"N","n"}, {"E","e"}, {"E","e"}, {"D","d"}>>], [op |-> "chars", sets |-> <<{"R","r"}, {"E","e"}, {"Q","q"}, {"U","u"}, {"I","i"}, {"R","r"}, {"E","e"}>>], [op |-> "chars", sets |-> <<{"A","a"}, {"R","r"}, {"R","r"}, {"A","a"}, {"N","n"}, {"G","g"}, {"E","e"}>>]>>], [op |-> "star", r |-> [op |-> "chars", sets |-> <<{" "}>>]], [op |-> "alt", rs |-> <<[op |-> "seq", rs |-> <<[op |-> "chars", sets |-> <<{"A","a"}>>], [op |-> "star", r |-> [op |-> "chars", sets |-> <<{" "}>>]]>>], [op |-> "seq", rs |-> <<>>]>>], [op |-> "chars", sets |-> <<{"W","w"}, {"H","h"}, {"E","e"}, {"E","e"}, {"L","l"}, {"C","c"}, {"H","h"}, {"A","a"}, {"I","i"}, {"R","r"}>>]>>],
                      [op |-> "seq", rs |-> <<[op |-> "chars", sets |-> <<{"A","a"}, {"S","s"}, {"S","s"}, {"I","i"}, {"S","s"}, {"T","t"}, {"A","a"}, {"N","n"}, {"C","c"}, {"E","e"}>>], [op |-> "star", r |-> [op |-> "chars", sets |-> <<{" "}>>]], [op |-> "alt", rs |-> <<[op |-> "chars", sets |-> <<{"F","f"}, {"O","o"}, {"R","r"}>>], [op |-> "chars", sets |-> <<{"W","w"}, {"I","i"}, {"T","t"}, {"H","h"}>>]>>]>>]>>],
      [name |-> "pet_travel", priority |-> 9, extractEntity |-> Some("petInfo"),
       patterns |-> <<[op |-> "chars", sets |-> <<{"P","p"}, {"E","e"}, {"T","t"}>>],
                      [op |-> "seq", rs |-> <<[op |-> "alt", rs |-> <<[op |-> "chars", sets |-> <<{"M","m"}, {"Y","y"}>>], [op |-> "chars", sets |-> <<{"A","a"}>>]>>], [op |-> "star", r |-> [op |-> "chars", sets |-> <<{" "}>>]], [op |-> "alt", rs |-> <<[op |-> "chars", sets |-> <<{"D","d"}, {"O","o"}, {"G","g"}>>], [op |-> "chars", sets |-> <<{"C","c"}, {"A","a"}, {"T","t"}>>], [op |-> "chars", sets |-> <<{"P","p"}, {"U","u"}, {"P","p"}, {"P","p"}, {"Y","y"}>>], [op |-> "chars", sets |-> <<{"K","k"}, {"I","i"}, {"T","t"}, {"T","t"}, {"E","e"}, {"N","n"}>>]>>]>>],
                      [op |-> "seq", rs |-> <<[op |-> "chars", sets |-> <<{"T","t"}, {"R","r"}, {"A","a"}, {"V","v"}, {"E","e"}, {"L","l"}>>], [op |-> "star", r |-> [op |-> "chars", sets |-> <<{" "}>>]], [op |-> "chars", sets |-> <<{"W","w"}, {"I","i"}, {"T","t"}, {"H","h"}>>], [op |-> "star", r |-> [op |-> "chars", sets |-> <<{" "}>>]], [op |-> "alt", rs |-> <<[op |-> "chars", sets |-> <<{"M","m"}, {"Y","y"}>>], [op |-> "chars", sets |-> <<{"A","a"}>>]>>], [op |-> "star", r |-> [op |-> "chars", sets |-> <<{" "}>>]], [op |-> "alt", rs |-> <<[op |-> "chars", sets |-> <<{"P","p"}, {"E","e"}, {"T","t"}>>], [op |-> "chars", sets |-> <<{"D","d"}, {"O","o"}, {"G","g"}>>], [op |-> "chars", sets |-> <<{"C","c"}, {"A","a"}, {"T","t"}>>]>>]>>],
                      [op |-> "seq", rs |-> <<[op |-> "alt", rs |-> <<[op |-> "chars", sets |-> <<{"B","b"}, {"R","r"}, {"I","i"}, {"N","n"}, {"G","g"}>>], [op |-> "chars", sets |-> <<{"C","c"}, {"A","a"}, {"R","r"}, {"R","r"}, {"Y","y"}>>]>>], [op |-> "star", r |-> [op |-> "chars", sets |-> <<{" "}>>]], [op |-> "alt", rs |-> <<[op |-> "chars", sets |-> <<{"M","m"}, {"Y","y"}>>], [op |-> "chars", sets |-> <<{"A","a"}>>]>>], [op |-> "star", r |-> [op |-> "chars", sets |-> <<{" "}>>]], [op |-> "alt", rs |-> <<[op |-> "chars", sets |-> <<{"P","p"}, {"E","e"}, {"T","t"}>>], [op |-> "chars", sets |-> <<{"D","d"}, {"O","o"}, {"G","g"}>>], [op |-> "chars", sets |-> <<{"C","c"}, {"A","a"}, {"T","t"}>>]>>]>>],
                      [op |-> "alt", rs |-> <<[op |-> "chars", sets |-> <<{"L","l"}, {"A","a"}, {"B","b"}, {"R","r"}, {"A","a"}, {"D","d"}, {"O","o"}, {"R","r"}>>], [op |-> "chars", sets |-> <<{"R","r"}, {"E","e"}, {"T","t"}, {"R","r"}, {"I","i"}, {"E","e"}, {"V","v"}, {"E","e"}, {"R","r"}>>], [op |-> "seq", rs |-> <<[op |-> "chars", sets |-> <<{"G","g"}, {"E","e"}, {"R","r"}, {"M","m"}, {"A","a"}, {"N","n"}>>], [op |-> "star", r |-> [op |-> "chars", sets |-> <<{" "}>>]], [op |-> "chars", sets |-> <<{"S","s"}, {"H","h"}, {"E","e"}, {"P","p"}, {"H","h"}, {"E","e"}, {"R","r"}, {"D","d"}>>]>>], [op |-> "chars", sets |-> <<{"P","p"}, {"O","o"}, {"O","o"}, {"D","d"}, {"L","l"}, {"E","e"}>>], [op |-> "chars", sets |-> <<{"B","b"}, {"E","e"}, {"A","a"}, {"G","g"}, {"L","l"}, {"E","e"}>>]>>]>>],
      [name |-> "whatsapp_summary", priority |-> 6, extractEntity |-> None,
       patterns |-> <<[op |-> "alt", rs |-> <<[op |-> "chars", sets |-> <<{"S","s"}, {"E","e"}, {"N","n"}, {"D","d"}>>], [op |-> "chars", sets |-> <<{"W","w"}, {"H","h"}, {"A","a"}, {"T","t"}, {"S","s"}, {"A","a"}, {"P","p"}, {"P","p"}>>], [op |-> "chars", sets |-> <<{"M","m"}, {"E","e"}, {"S","s"}, {"S","s"}, {"A","a"}, {"G","g"}, {"E","e"}>>]>>],
                      [op |-> "seq", rs |-> <<[op |-> "chars", sets |-> <<{"S","s"}, {"U","u"}, {"M","m"}, {"M","m"}, {"A","a"}, {"R","r"}, {"Y","y"}>>], [op |-> "star", r |-> [op |-> "chars", sets |-> <<{" "}>>]], [op |-> "alt", rs |-> <<[op |-> "alt", rs |-> <<[op |-> "chars", sets |-> <<{"O","o"}, {"N","n"}>>], [op |-> "chars", sets |-> <<{"V","v"}, {"I","i"}, {"A","a"}>>], [op |-> "chars", sets |-> <<{"T","t"}, {"H","h"}, {"R","r"}, {"O","o"}, {"U","u"}, {"G","g"}, {"H","h"}>>]>>], [op |-> "seq", rs |-> <<>>]>>], [op |-> "star", r |-> [op |-> "chars", sets |-> <<{" "}>>]], [op |-> "chars", sets |-> <<{"W","w"}, {"H","h"}, {"A","a"}, {"T","t"}, {"S","s"}, {"A","a"}, {"P","p"}, {"P","p"}>>]>>],
                      [op |-> "seq", rs |-> <<[op |-> "chars", sets |-> <<{"W","w"}, {"H","h"}, {"A","a"}, {"T","t"}, {"S","s"}, {"A","a"}, {"P","p"}, {"P","p"}>>], [op |-> "star", r |-> [op |-> "chars", sets |-> <<{" "}>>]], [op |-> "alt", rs |-> <<[op |-> "chars", sets |-> <<{"M","m"}, {"E","e"}>>], [op |-> "chars", sets |-> <<{"S","s"}, {"U","u"}, {"M","m"}, {"M","m"}, {"A","a"}, {"R","r"}, {"Y","y"}>>]>>]>>],
                      [op |-> "seq", rs |-> <<[op |-> "chars", sets |-> <<{"S","s"}, {"E","e"}, {"N","n"}, {"D","d"}>>], [op |-> "star", r |-> [op |-> "chars", sets |-> <<{" "}>>]], [op |-> "alt", rs |-> <<[op |-> "seq", rs |-> <<[op |-> "chars", sets |-> <<{"M","m"}, {"E","e"}>>], [op |-> "star", r |-> [op |-> "chars", sets |-> <<{" "}>>]]>>], [op |-> "seq", rs |-> <<>>]>>], [op |-> "alt", rs |-> <<[op |-> "seq", rs |-> <<[op |-> "chars", sets |-> <<{"A","a"}>>], [op |-> "star", r |-> [op |-> "chars", sets |-> <<{" "}>>]]>>], [op |-> "seq", rs |-> <<>>]>>], [op |-> "chars", sets |-> <<{"S","s"}, {"U","u"}, {"M","m"}, {"M","m"}, {"A","a"}, {"R","r"}, {"Y","y"}>>]>>]>>],
      [name |-> "confirm_yes", priority |-> 3, extractEntity |-> None,
       patterns |-> <<[op |-> "seq", rs |-> <<[op |-> "bol"], [op |-> "chars", sets |-> <<{"Y","y"}, {"E","e"}, {"S","s"}>>]>>], [op |-> "seq", rs |-> <<[op |-> "bol"], [op |-> "chars", sets |-> <<{"Y","y"}, {"E","e"}, {"A","a"}, {"H","h"}>>]>>], [op |-> "seq", rs |-> <<[op |-> "bol"], [op |-> "chars", sets |-> <<{"Y","y"}, {"E","e"}, {"P","p"}>>]>>], [op |-> "seq", rs |-> <<[op |-> "bol"], [op |-> "chars", sets |-> <<{"S","s"}, {"U","u"}, {"R","r"}, {"E","e"}>>]>>], [op |-> "seq", rs |-> <<[op |-> "bol"], [op |-> "chars", sets |-> <<{"O","o"}, {"K","k"}>>]>>], [op |-> "seq", rs |-> <<[op |-> "bol"], [op |-> "chars", sets |-> <<{"O","o"}, {"K","k"}, {"A","a"}, {"Y","y"}>>]>>],
                      [op |-> "seq", rs |-> <<[op |-> "bol"], [op |-> "chars", sets |-> <<{"R","r"}, {"I","i"}, {"G","g"}, {"H","h"}, {"T","t"}>>]>>], [op |-> "seq", rs |-> <<[op |-> "bol"], [op |-> "chars", sets |-> <<{"C","c"}, {"O","o"}, {"R","r"}, {"R","r"}, {"E","e"}, {"C","c"}, {"T","t"}>>]>>],
                      [op |-> "seq", rs |-> <<[op |-> "chars", sets |-> <<{"T","t"}, {"H","h"}, {"A","a"}, {"T","t"}, {"'"}, {"S","s"}>>], [op |-> "star", r |-> [op |-> "chars", sets |-> <<{" "}>>]], [op |-> "alt", rs |-> <<[op |-> "chars", sets |-> <<{"R","r"}, {"I","i"}, {"G","g"}, {"H","h"}, {"T","t"}>>], [op |-> "chars", sets |-> <<{"C","c"}, {"O","o"}, {"R","r"}, {"R","r"}, {"E","e"}, {"C","c"}, {"T","t"}>>]>>]>>],
                      [op |-> "seq", rs |-> <<[op |-> "chars", sets |-> <<{"P","p"}, {"L","l"}, {"E","e"}, {"A","a"}, {"S","s"}, {"E","e"}>>], [op |-> "star", r |-> [op |-> "chars", sets |-> <<{" "}>>]], [op |-> "chars", sets |-> <<{"D","d"}, {"O","o"}>>]>>],
                      [op |-> "seq", rs |-> <<[op |-> "chars", sets |-> <<{"G","g"}, {"O","o"}>>], [op |-> "star", r |-> [op |-> "chars", sets |-> <<{" "}>>]], [op |-> "chars", sets |-> <<{"A","a"}, {"H","h"}, {"E","e"}, {"A","a"}, {"D","d"}>>]>>]>>],
      [name |-> "confirm_no", priority |-> 3, extractEntity |-> None,
       patterns |-> <<[op |-> "seq", rs |-> <<[op |-> "bol"], [op |-> "chars", sets |-> <<{"N","n"}, {"O","o"}>>]>>], [op |-> "seq", rs |-> <<[op |-> "bol"], [op |-> "chars", sets |-> <<{"N","n"}, {"O","o"}, {"P","p"}, {"E","e"}>>]>>],
                      [op |-> "seq", rs |-> <<[op |-> "bol"], [op |-> "chars", sets |-> <<{"N","n"}, {"O","o"}, {"T","t"}>>], [op |-> "star", r |-> [op |-> "chars", sets |-> <<{" "}>>]], [op |-> "alt", rs |-> <<[op |-> "chars", sets |-> <<{"N","n"}, {"O","o"}, {"W","w"}>>], [op |-> "chars", sets |-> <<{"Y","y"}, {"E","e"}, {"T","t"}>>]>>]>>],
                      [op |-> "chars", sets |-> <<{"C","c"}, {"A","a"}, {"N","n"}, {"C","c"}, {"E","e"}, {"L","l"}>>],
                      [op |-> "chars", sets |-> <<{"D","d"}, {"O","o"}, {"N","n"}, {"'"}, {"T","t"}>>],
                      [op |-> "seq", rs |-> <<[op |-> "chars", sets |-> <<{"N","n"}, {"E","e"}, {"V","v"}, {"E","e"}, {"R","r"}>>], [op |-> "star", r |-> [op |-> "chars", sets |-> <<{" "}>>]], [op |-> "chars", sets |-> <<{"M","m"}, {"I","i"}, {"N","n"}, {"D","d"}>>]>>]>>],
      [name |-> "help", priority |-> 2, extractEntity |-> None,
       patterns |-> <<[op |-> "chars", sets |-> <<{"H","h"}, {"E","e"}, {"L","l"}, {"P","p"}>>],
                      [op |-> "seq", rs |-> <<[op |-> "chars", sets |-> <<{"W","w"}, {"H","h"}, {"A","a"}, {"T","t"}>>], [op |-> "star", r |-> [op |-> "chars", sets |-> <<{" "}>>]], [op |-> "chars", sets |-> <<{"C","c"}, {"A","a"}, {"N","n"}>>], [op |-> "star", r |-> [op |-> "chars", sets |-> <<{" "}>>]], [op |-> "chars", sets |-> <<{"Y","y"}, {"O","o"}, {"U","u"}>>], [op |-> "star", r |-> [op |-> "chars", sets |-> <<{" "}>>]], [op |-> "chars", sets |-> <<{"D","d"}, {"O","o"}>>]>>],
                      [op |-> "chars", sets |-> <<{"O","o"}, {"P","p"}, {"T","t"}, {"I","i"}, {"O","o"}, {"N","n"}, {"S","s"}>>],
                      [op |-> "chars", sets |-> <<{"S","s"}, {"E","e"}, {"R","r"}, {"V","v"}, {"I","i"}, {"C","c"}, {"E","e"}, {"S","s"}>>]>>],
      [name |-> "goodbye", priority |-> 1, extractEntity |-> None,
       patterns |-> <<[op |-> "alt", rs |-> <<[op |-> "chars", sets |-> <<{"B","b"}, {"Y","y"}, {"E","e"}>>], [op |-> "chars", sets |-> <<{"G","g"}, {"O","o"}, {"O","o"}, {"D","d"}, {"B","b"}, {"Y","y"}, {"E","e"}>>], [op |-> "seq", rs |-> <<[op |-> "chars", sets |-> <<{"T","t"}, {"H","h"}, {"A","a"}, {"N","n"}, {"K","k"}>>], [op |-> "star", r |-> [op |-> "chars", sets |-> <<{" "}>>]], [op |-> "chars", sets |-> <<{"Y","y"}, {"O","o"}, {"U","u"}>>]>>], [op |-> "chars", sets |-> <<{"T","t"}, {"H","h"}, {"A","a"}, {"N","n"}, {"K","k"}, {"S","s"}>>], [op |-> "seq", rs |-> <<[op |-> "chars", sets |-> <<{"T","t"}, {"H","h"}, {"A","a"}, {"T","t"}, {"'"}, {"S","s"}>>], [op |-> "star", r |-> [op |-> "chars", sets |-> <<{" "}>>]], [op |-> "chars", sets |-> <<{"A","a"}, {"L","l"}, {"L","l"}>>]>>]>>],
                      [op |-> "seq", rs |-> <<[op |-> "chars", sets |-> <<{"N","n"}, {"O","o"}, {"T","t"}, {"H","h"}, {"I","i"}, {"N","n"}, {"G","g"}>>], [op |-> "star", r |-> [op |-> "chars", sets |-> <<{" "}>>]], [op |-> "chars", sets |-> <<{"E","e"}, {"L","l"}, {"S","s"}, {"E","e"}>>]>>],
                      [op |-> "seq", rs |-> <<[op |-> "chars", sets |-> <<{"T","t"}, {"H","h"}, {"A","a"}, {"T","t"}>>], [op |-> "star", r |-> [op |-> "chars", sets |-> <<{" "}>>]], [op |-> "alt", rs |-> <<[op |-> "seq", rs |-> <<[op |-> "chars", sets |-> <<{"W","w"}, {"O","o"}, {"U","u"}, {"L","l"}, {"D","d"}>>], [op |-> "star", r |-> [op |-> "chars", sets |-> <<{" "}>>]], [op |-> "chars", sets |-> <<{"B","b"}, {"E","e"}>>]>>], [op |-> "chars", sets |-> <<{"I","i"}, {"S","s"}>>]>>], [op |-> "star", r |-> [op |-> "chars", sets |-> <<{" "}>>]], [op |-> "chars", sets |-> <<{"A","a"}, {"L","l"}, {"L","l"}>>]>>]>>]>>

\* this.entityPatterns
entityPatterns ==
    [pnr |-> [op |-> "grp", r |-> [op |-> "alt", rs |-> <<[op |-> "seq", rs |-> <<[op |-> "seq", rs |-> <<[op |-> "chars", sets |-> <<(UpperSet \cup LowerSet)>>], [op |-> "chars", sets |-> <<(UpperSet \cup LowerSet)>>], [op |-> "chars", sets |-> <<(UpperSet \cup LowerSet)>>]>>], [op |-> "seq", rs |-> <<[op |-> "chars", sets |-> <<DigitSet>>], [op |-> "chars", sets |-> <<DigitSet>>], [op |-> "chars", sets |-> <<DigitSet>>]>>]>>], [op |-> "seq", rs |-> <<[op |-> "chars", sets |-> <<(UpperSet \cup LowerSet \cup DigitSet)>>], [op |-> "chars", sets |-> <<(UpperSet \cup LowerSet \cup DigitSet)>>], [op |-> "chars", sets |-> <<(UpperSet \cup LowerSet \cup DigitSet)>>], [op |-> "chars", sets |-> <<(UpperSet \cup LowerSet \cup DigitSet)>>], [op |-> "chars", sets |-> <<(UpperSet \cup LowerSet \cup DigitSet)>>], [op |-> "chars", sets |-> <<(UpperSet \cup LowerSet \cup DigitSet)>>]>>]>>]],
     weight |-> [op |-> "seq", rs |-> <<[op |-> "grp", r |-> [op |-> "seq", rs |-> <<[op |-> "chars", sets |-> <<DigitSet>>], [op |-> "star", r |-> [op |-> "chars", sets |-> <<DigitSet>>]]>>]], [op |-> "star", r |-> [op |-> "chars", sets |-> <<{" "}>>]], [op |-> "alt", rs |-> <<[op |-> "seq", rs |-> <<[op |-> "chars", sets |-> <<{"K","k"}>>], [op |-> "alt", rs |-> <<[op |-> "chars", sets |-> <<{"G","g"}>>], [op |-> "chars", sets |-> <<{"I","i"}, {"L","l"}, {"O","o"}>>], [op |-> "chars", sets |-> <<{"I","i"}, {"L","l"}, {"O","o"}, {"G","g"}, {"R","r"}, {"A","a"}, {"M","m"}>>]>>]>>], [op |-> "seq", rs |-> <<>>]>>], [op |-> "alt", rs |-> <<[op |-> "chars", sets |-> <<{"S","s"}>>], [op |-> "seq", rs |-> <<>>]>>]>>],
     seatType |-> [op |-> "grp", r |-> [op |-> "alt", rs |-> <<[op |-> "chars", sets |-> <<{"W","w"}, {"I","i"}, {"N","n"}, {"D","d"}, {"O","o"}, {"W","w"}>>], [op |-> "chars", sets |-> <<{"A","a"}, {"I","i"}, {"S","s"}, {"L","l"}, {"E","e"}>>], [op |-> "seq", rs |-> <<[op |-> "chars", sets |-> <<{"E","e"}, {"X","x"}, {"T","t"}, {"R","r"}, {"A","a"}>>], [op |-> "star", r |-> [op |-> "chars", sets |-> <<{" "}>>]], [op |-> "chars", sets |-> <<{"L","l"}, {"E","e"}, {"G","g"}, {"R","r"}, {"O","o"}, {"O","o"}, {"M","m"}>>]>>], [op |-> "chars", sets |-> <<{"M","m"}, {"I","i"}, {"D","d"}, {"D","d"}, {"L","l"}, {"E","e"}>>], [op |-> "chars", sets |-> <<{"P","p"}, {"R","r"}, {"E","e"}, {"M","m"}, {"I","i"}, {"U","u"}, {"M","m"}>>]>>]],
     seatNumber |-> [op |-> "grp", r |-> [op |-> "seq", rs |-> <<[op |-> "seq", rs |-> <<[op |-> "chars", sets |-> <<DigitSet>>], [op |-> "alt", rs |-> <<[op |-> "chars", sets |-> <<DigitSet>>], [op |-> "seq", rs |-> <<>>]>>]>>], [op |-> "chars", sets |-> <<{"A","B","C","D","E","F","a","b","c","d","e","f"}>>]>>]],
     name |-> [op |-> "seq", rs |-> <<[op |-> "alt", rs |-> <<[op |-> "seq", rs |-> <<[op |-> "chars", sets |-> <<{"N","n"}, {"A","a"}, {"M","m"}, {"E","e"}>>], [op |-> "star", r |-> [op |-> "chars", sets |-> <<{" "}>>]], [op |-> "chars", sets |-> <<{"I","i"}, {"S","s"}>>], [op |-> "star", r |-> [op |-> "chars", sets |-> <<{" "}>>]]>>], [op |-> "seq", rs |-> <<[op |-> "chars", sets |-> <<{"F","f"}, {"O","o"}, {"R","r"}>>], [op |-> "star", r |-> [op |-> "chars", sets |-> <<{" "}>>]]>>], [op |-> "seq", rs |-> <<[op |-> "chars", sets |-> <<{"M","m"}, {"R","r"}>>], [op |-> "alt", rs |-> <<[op |-> "chars", sets |-> <<{"."}>>], [op |-> "seq", rs |-> <<>>]>>], [op |-> "star", r |-> [op |-> "chars", sets |-> <<{" "}>>]]>>], [op |-> "seq", rs |-> <<[op |-> "chars", sets |-> <<{"M","m"}, {"R","r"}, {"S","s"}>>], [op |-> "alt", rs |-> <<[op |-> "chars", sets |-> <<{"."}>>], [op |-> "seq", rs |-> <<>>]>>], [op |-> "star", r |-> [op |-> "chars", sets |-> <<{" "}>>]]>>], [op |-> "seq", rs |-> <<[op |-> "chars", sets |-> <<{"M","m"}, {"S","s"}>>], [op |-> "alt", rs |-> <<[op |-> "chars", sets |-> <<{"."}>>], [op |-> "seq", rs |-> <<>>]>>], [op |-> "star", r |-> [op |-> "chars", sets |-> <<{" "}>>]]>>]>>], [op |-> "grp", r |-> [op |-> "seq", rs |-> <<[op |-> "chars", sets |-> <<(UpperSet \cup LowerSet)>>], [op |-> "seq", rs |-> <<[op |-> "chars", sets |-> <<(UpperSet \cup LowerSet)>>], [op |-> "star", r |-> [op |-> "chars", sets |-> <<(UpperSet \cup LowerSet)>>]]>>], [op |-> "star", r |-> [op |-> "seq", rs |-> <<[op |-> "seq", rs |-> <<[op |-> "chars", sets |-> <<{" "}>>], [op |-> "star", r |-> [op |-> "chars", sets |-> <<{" "}>>]]>>], [op |-> "chars", sets |-> <<(UpperSet \cup LowerSet)>>], [op |-> "seq", rs |-> <<[op |-> "chars", sets |-> <<(UpperSet \cup LowerSet)>>], [op |-> "star", r |-> [op |-> "chars", sets |-> <<(UpperSet \cup LowerSet)>>]]>>]>>]]>>]]>>],
     petBreed |-> [op |-> "grp", r |-> [op |-> "alt", rs |-> <<[op |-> "chars", sets |-> <<{"L","l"}, {"A","a"}, {"B","b"}, {"R","r"}, {"A","a"}, {"D","d"}, {"O","o"}, {"R","r"}>>], [op |-> "chars", sets |-> <<{"R","r"}, {"E","e"}, {"T","t"}, {"R","r"}, {"I","i"}, {"E","e"}, {"V","v"}, {"E","e"}, {"R","r"}>>], [op |-> "seq", rs |-> <<[op |-> "chars", sets |-> <<{"G","g"}, {"E","e"}, {"R","r"}, {"M","m"}, {"A","a"}, {"N","n"}>>], [op |-> "star", r |-> [op |-> "chars", sets |-> <<{" "}>>]], [op |-> "chars", sets |-> <<{"S","s"}, {"H","h"}, {"E","e"}, {"P","p"}, {"H","h"}, {"E","e"}, {"R","r"}, {"D","d"}>>]>>], [op |-> "chars", sets |-> <<{"P","p"}, {"O","o"}, {"O","o"}, {"D","d"}, {"L","l"}, {"E","e"}>>], [op |-> "chars", sets |-> <<{"B","b"}, {"E","e"}, {"A","a"}, {"G","g"}, {"L","l"}, {"E","e"}>>], [op |-> "chars", sets |-> <<{"B","b"}, {"U","u"}, {"L","l"}, {"L","l"}, {"D","d"}, {"O","o"}, {"G","g"}>>], [op |-> "chars", sets |-> <<{"H","h"}, {"U","u"}, {"S","s"}, {"K","k"}, {"Y","y"}>>], [op |-> "chars", sets |-> <<{"G","g"}, {"O","o"}, {"L","l"}, {"D","d"}, {"E","e"}, {"N","n"}>>], [op |-> "chars", sets |-> <<{"P","p"}, {"E","e"}, {"R","r"}, {"S","s"}, {"I","i"}, {"A","a"}, {"N","n"}>>], [op |-> "chars", sets |-> <<{"S","s"}, {"I","i"}, {"A","a"}, {"M","m"}, {"E","e"}, {"S","s"}, {"E","e"}>>]>>]],
     petWeight |-> [op |-> "seq", rs |-> <<[op |-> "grp", r |-> [op |-> "seq", rs |-> <<[op |-> "chars", sets |-> <<DigitSet>>], [op |-> "star", r |-> [op |-> "chars", sets |-> <<DigitSet>>]]>>]], [op |-> "star", r |-> [op |-> "chars", sets |-> <<{" "}>>]], [op |-> "chars", sets |-> <<{"K","k"}>>], [op |-> "alt", rs |-> <<[op |-> "chars", sets |-> <<{"G","g"}>>], [op |-> "chars", sets |-> <<{"I","i"}, {"L","l"}, {"O","o"}>>]>>]>>],
     wheelchairType |-> [op |-> "grp", r |-> [op |-> "alt", rs |-> <<[op |-> "seq", rs |-> <<[op |-> "chars", sets |-> <<{"G","g"}, {"A","a"}, {"T","t"}, {"E","e"}>>], [op |-> "alt", rs |-> <<[op |-> "any"], [op |-> "seq", rs |-> <<>>]>>], [op |-> "chars", sets |-> <<{"T","t"}, {"O","o"}>>], [op |-> "alt", rs |-> <<[op |-> "any"], [op |-> "seq", rs |-> <<>>]>>], [op |-> "chars", sets |-> <<{"G","g"}, {"A","a"}, {"T","t"}, {"E","e"}>>]>>], [op |-> "seq", rs |-> <<[op |-> "chars", sets |-> <<{"C","c"}, {"H","h"}, {"E","e"}, {"C","c"}, {"K","k"}>>], [op |-> "alt", rs |-> <<[op |-> "any"], [op |-> "seq", rs |-> <<>>]>>], [op |-> "chars", sets |-> <<{"I","i"}, {"N","n"}>>], [op |-> "star", r |-> [op |-> "any"]], [op |-> "chars", sets |-> <<{"B","b"}, {"O","o"}, {"A","a"}, {"R","r"}, {"D","d"}, {"I","i"}, {"N","n"}, {"G","g"}>>]>>], [op |-> "chars", sets |-> <<{"A","a"}, {"R","r"}, {"R","r"}, {"I","i"}, {"V","v"}, {"A","a"}, {"L","l"}>>], [op |-> "chars", sets |-> <<{"F","f"}, {"U","u"}, {"L","l"}, {"L","l"}>>], [op |-> "chars", sets |-> <<{"C","c"}, {"O","o"}, {"M","m"}, {"P","p"}, {"L","l"}, {"E","e"}, {"T","t"}, {"E","e"}>>]>>]]]

\* Object.keys(this.entityPatterns)
entityTypes ==
    <<"pnr", "weight", "seatType", "seatNumber", "name", "petBreed", "petWeight",
      "wheelchairType">>

\* value.replace(/\s+/g, '-')
RECURSIVE dashSpaces(_)
dashSpaces(s) ==
    IF s = <<>> THEN <<>>
    ELSE IF IsSpace(s[1])
         THEN <<"-">> \o dashSpaces(SubSeq(s, RunEnd(SpaceSet, s, 1) + 1, Len(s)))
         ELSE <<s[1]>> \o dashSpaces(Tail(s))

\* normalizeWheelchairType(value)
normalizeWheelchairType(value) ==
    LET normalized == toLowerCase(value)
    IN CASE includes(normalized, <<"g","a","t","e">>) /\ includes(normalized, <<"g","a","t","e">>) -> <<"g","a","t","e","-","t","o","-","g","a","t","e">>
         [] includes(normalized, <<"c","h","e","c","k">>) /\ includes(normalized, <<"b","o","a","r","d">>) ->
               <<"c","h","e","c","k","i","n","-","t","o","-","b","o","a","r","d","i","n","g">>
         [] includes(normalized, <<"a","r","r","i","v","a","l">>) -> <<"a","r","r","i","v","a","l","-","a","s","s","i","s","t","a","n","c","e">>
         [] includes(normalized, <<"f","u","l","l">>) \/ includes(normalized, <<"c","o","m","p","l","e","t","e">>) ->
               <<"f","u","l","l","-","a","s","s","i","s","t","a","n","c","e">>
         [] OTHER -> <<"f","u","l","l","-","a","s","s","i","s","t","a","n","c","e">>

\* extractEntity(entityType, text): None for null
extractEntity(entityType, text) ==
    IF entityType \notin DOMAIN entityPatterns THEN None
    ELSE LET m == match(text, entityPatterns[entityType])
         IN IF IsSet(m) /\ IsSet(Val(m).group) /\ Val(Val(m).group) # <<>>
            THEN LET value == trim(Val(Val(m).group))
                 IN Some(CASE entityType = "pnr" -> toUpperCase(value)
                           [] entityType = "seatType" -> dashSpaces(toLowerCase(value))
                           [] entityType = "wheelchairType" -> normalizeWheelchairType(value)
                           [] OTHER -> value)
            ELSE None

\* an entities object: a key that is absent is None
noEntities == [entityType \in Range(entityTypes) \cup {"petInfo"} |-> None]

\* extractAllEntities(text)
extractAllEntities(text) ==
    [entityType \in DOMAIN noEntities |-> extractEntity(entityType, text)]

\* calculateConfidence(match, text) = Math.min(0.5 + matchRatio * 0.5, 1.0), as the
\* fraction num / den
calculateConfidence(m, text) ==
    IF Len(m.whole) >= Len(text) THEN [num |-> 1, den |-> 1]
    ELSE [num |-> Len(text) + Len(m.whole), den |-> 2 * Len(text)]

\* the first pattern of an intent that matches, 0 when none does
firstPattern(config, normalizedText) ==
    LET hits == {j \in 1..Len(config.patterns) : test(config.patterns[j], normalizedText)}
    IN IF hits = {} THEN 0 ELSE Least(hits)

\* the intent object pushed for a pattern that matched
intentOf(config, j, normalizedText, text) ==
    LET m == Val(match(normalizedText, config.patterns[j]))
        entityValue == IF IsSet(config.extractEntity)
                       THEN extractEntity(Val(config.extractEntity), text) ELSE None
    IN [name |-> config.name,
        confidence |-> calculateConfidence(m, normalizedText),
        priority |-> config.priority,
        matchedText |-> m.whole,
        entities |-> IF IsSet(entityValue)
                     THEN [noEntities EXCEPT ![Val(config.extractEntity)] = entityValue]
                     ELSE noEntities]

\* A faulty variant of sortsBefore: the confidence is not compared.
sortsBefore_PriorityOnly(a, b) == a.priority > b.priority

\* the comparator of detectedIntents.sort: a is to come before b
sortsBefore(a, b) ==
    \/ a.priority > b.priority
    \/ /\ a.priority = b.priority
       /\ a.confidence.num * b.confidence.den > b.confidence.num * a.confidence.den

\* Array.prototype.sort with that comparator, which is stable
RECURSIVE sortIntents(_)
sortIntents(intents) ==
    IF intents = <<>> THEN <<>>
    ELSE LET rest == sortIntents(Tail(intents))
             a == Head(intents)
             ahead == {k \in 1..Len(rest) : sortsBefore(rest[k], a)}
             n == IF ahead = {} THEN 0 ELSE CHOOSE k \in ahead : \A j \in ahead : j <= k
         IN SubSeq(rest, 1, n) \o <<a>> \o SubSeq(rest, n + 1, Len(rest))

\* the intents detected, in the order of intentPatterns
RECURSIVE detected(_, _, _)
detected(k, normalizedText, text) ==
    IF k > Len(intentPatterns) THEN <<>>
    ELSE LET j == firstPattern(intentPatterns[k], normalizedText)
         IN (IF j = 0 THEN <<>> ELSE <<intentOf(intentPatterns[k], j, normalizedText, text)>>)
            \o detected(k + 1, normalizedText, text)

\* detectIntents(text)
detectIntents(text) == sortIntents(detected(1, trim(toLowerCase(text)), text))

\* detectMultipleIntents(text): an intent name occurs once in detectIntents(text)
detectMultipleIntents(text) == detectIntents(text)

hasIntent(intents, name) == \E k \in 1..Len(intents) : intents[k].name = name

\* isConfirmation(text)
isConfirmation(text) == hasIntent(detectIntents(text), "confirm_yes")

\* isDenial(text)
isDenial(text) == hasIntent(detectIntents(text), "confirm_no")

(***************************************************************************)
(* ConversationManager (public/js/intent-engine.js).  A manager is the     *)
(* object's state and context.  processInput makes at most one call to a   *)
(* collaborator (a fetch); how that call ends is given as env: its outcome *)
(* is "success", "failure" (an answer without success, or no seat          *)
(* available) or "throws" (the fetch or response.json() throws), and seat  *)
(* is the seat the seat search would offer.  A handler gives the manager   *)
(* as it leaves it, what the agent says (the sentences' names), the        *)
(* collaborator it called and the outcome of the call.                     *)
(***************************************************************************)
\* the longest completedServices list the model follows
MaxCompleted == 2

\* resetContext(), and the constructor
newContext ==
    [pnr |-> None, booking |-> None, customerName |-> None, currentService |-> None,
     pendingServices |-> <<>>, completedServices |-> <<>>, totalCost |-> 0,
     awaitingConfirmation |-> None, pendingData |-> None,
     requestedSeatType |-> None, requestedWeight |-> None]

newManager == [state |-> "idle", context |-> newContext]

Said(m, response) == [manager |-> m, response |-> response, called |-> None, outcome |-> None]

Called(m, response, api, env) ==
    [manager |-> m, response |-> response, called |-> Some(api), outcome |-> Some(env.outcome)]

\* an exception that leaves the handler: the promise of processInput is rejected
Thrown(m) == Said(m, <<"TypeError">>)

\* the booking the backend holds for a PNR, in the shape the client reads
bookingOf(pnr) ==
    LET b == bookingsData.bookings[pnr]
    IN [flight |-> b.flight, passengers |-> <<[name |-> b.passenger]>>]

\* the seats the seat search may offer
SeatsOffered == {[id |-> <<"1","4","A">>, price |-> 200], [id |-> <<"1","4","B">>, price |-> 0]}

CollaboratorOutcomes == {"success", "failure", "throws"}

Envs == [outcome : CollaboratorOutcomes, seat : SeatsOffered]

\* startCall()
managerStartCall(m) == Said([state |-> "greeting", context |-> newContext], <<"greeting">>)

\* endConversation()
endConversation(m) ==
    Said([m EXCEPT !.state = "ended"],
         IF Len(m.context.completedServices) > 0
         THEN <<"thanks_updated">> ELSE <<"thanks">>)

\* initiateTransfer()
initiateTransfer(m) == Said([m EXCEPT !.state = "transfer"], <<"transfer">>)

\* pendingData?.breed
hasBreed(m) ==
    /\ IsSet(m.context.pendingData)
    /\ "breed" \in DOMAIN Val(m.context.pendingData)

\* verifyPnr()
verifyPnr(m, env) ==
    CASE env.outcome = "throws" -> Called(m, <<"booking_system_trouble">>, "verify-pnr", env)
      [] env.outcome = "success" /\ Val(m.context.pnr) \in DOMAIN bookingsData.bookings ->
            Called([m EXCEPT !.context.booking = Some(bookingOf(Val(m.context.pnr))),
                             !.state = "pnr_confirmed"],
                   <<"found_booking", "is_that_correct">>, "verify-pnr", env)
      [] OTHER ->
            Called([m EXCEPT !.state = "awaiting_pnr"], <<"pnr_not_found">>,
                   "verify-pnr", [env EXCEPT !.outcome = "failure"])

ServiceIntents == {"seat_selection", "baggage", "priority_service", "wheelchair", "pet_travel"}

\* intents.filter(...).map(i => ({ type: i.name, entities: i.entities }))
RECURSIVE queuedServices(_)
queuedServices(intents) ==
    IF intents = <<>> THEN <<>>
    ELSE (IF Head(intents).name \in ServiceIntents
          THEN <<[type |-> Head(intents).name, entities |-> Head(intents).entities]>>
          ELSE <<>>) \o queuedServices(Tail(intents))

\* a || b for strings that may be null
orElse(a, b) == IF IsSet(a) THEN a ELSE b

\* handleGreeting(text, entities, intents)
handleGreeting(m, text, entities, intents, env) ==
    IF IsSet(entities.pnr)
    THEN verifyPnr([m EXCEPT !.context.pnr = entities.pnr,
                             !.context.pendingServices = queuedServices(intents),
                             !.context.requestedSeatType = orElse(entities.seatType, @),
                             !.context.requestedWeight = orElse(entities.weight, @)],
                   env)
    ELSE Said([m EXCEPT !.state = "awaiting_pnr"],
              IF IsSet(m.context.customerName)
              THEN <<"hello_name", "ask_pnr">> ELSE <<"ask_pnr">>)

\* text.match(/([A-Z]{3}\d{3}|[A-Z0-9]{6})/i) in handlePnrInput
pnrMatchOf(text) == match(text, [op |-> "grp", r |-> [op |-> "alt", rs |-> <<[op |-> "seq", rs |-> <<[op |-> "seq", rs |-> <<[op |-> "chars", sets |-> <<(UpperSet \cup LowerSet)>>], [op |-> "chars", sets |-> <<(UpperSet \cup LowerSet)>>], [op |-> "chars", sets |-> <<(UpperSet \cup LowerSet)>>]>>], [op |-> "seq", rs |-> <<[op |-> "chars", sets |-> <<DigitSet>>], [op |-> "chars", sets |-> <<DigitSet>>], [op |-> "chars", sets |-> <<DigitSet>>]>>]>>], [op |-> "seq", rs |-> <<[op |-> "chars", sets |-> <<(UpperSet \cup LowerSet \cup DigitSet)>>], [op |-> "chars", sets |-> <<(UpperSet \cup LowerSet \cup DigitSet)>>], [op |-> "chars", sets |-> <<(UpperSet \cup LowerSet \cup DigitSet)>>], [op |-> "chars", sets |-> <<(UpperSet \cup LowerSet \cup DigitSet)>>], [op |-> "chars", sets |-> <<(UpperSet \cup LowerSet \cup DigitSet)>>], [op |-> "chars", sets |-> <<(UpperSet \cup LowerSet \cup DigitSet)>>]>>]>>]])

\* handlePnrInput(text, entities), with that match as pnrMatch
handlePnrInput(m, text, entities, pnrMatch, env) ==
    IF IsSet(entities.pnr)
    THEN verifyPnr([m EXCEPT !.context.pnr = entities.pnr], env)
    ELSE    IF IsSet(pnrMatch)
            THEN verifyPnr([m EXCEPT !.context.pnr =
                                        Some(toUpperCase(Val(Val(pnrMatch).group)))], env)
            ELSE Said(m, <<"spell_pnr">>)

\* findSeat(seatType)
findSeat(m, seatType, env) ==
    CASE ~IsSet(m.context.booking) -> Said(m, <<"seat_search_trouble">>)
      [] env.outcome = "throws" -> Called(m, <<"seat_search_trouble">>, "seats", env)
      [] env.outcome = "success" ->
            Called([m EXCEPT !.context.pendingData =
                                 Some([id |-> env.seat.id, type |-> seatType,
                                       price |-> env.seat.price]),
                             !.state = "awaiting_seat_confirm"],
                   <<"found_seat", "book_that">>, "seats", env)
      [] OTHER -> Called([m EXCEPT !.state = "awaiting_seat_type"],
                         <<"no_seats_of_type">>, "seats", env)

\* Math.ceil(weight / 5)
baggageUnits(weight) == CHOOSE units \in 0..weight : 5 * units >= weight /\ 5 * (units - 1) < weight

\* calculateBaggage(weight)
calculateBaggage(m, weight) ==
    LET units == baggageUnits(weight)
        cost == units * 500
    IN Said([m EXCEPT !.context.pendingData = Some([weight |-> weight, cost |-> cost]),
                      !.state = "awaiting_baggage_confirm"],
            <<"quote_baggage">>)

\* sendWhatsapp()
sendWhatsapp(m, env) ==
    IF env.outcome = "success"
    THEN IF hasBreed(m)
         THEN Called(initiateTransfer(m).manager, <<"sending_summary", "transfer">>,
                     "send-whatsapp", env)
         ELSE Called([m EXCEPT !.state = "service_complete"],
                     <<"summary_sent", "anything_else">>, "send-whatsapp", env)
    ELSE Called(m, <<"message_trouble">>, "send-whatsapp", env)

\* startService(serviceName, entities)
startService(m0, serviceName, entities, env) ==
    LET m == [m0 EXCEPT !.context.currentService = Some(serviceName)]
    IN CASE serviceName = "seat_selection" ->
               LET seatType == orElse(entities.seatType, m.context.requestedSeatType)
               IN IF IsSet(seatType)
                  THEN findSeat([m EXCEPT !.state = "awaiting_seat_type",
                                          !.context.requestedSeatType = None],
                                Val(seatType), env)
                  ELSE Said([m EXCEPT !.state = "awaiting_seat_type"], <<"ask_seat_type">>)
         [] serviceName = "baggage" ->
               LET weight == orElse(entities.weight, m.context.requestedWeight)
               IN IF IsSet(weight)
                  THEN calculateBaggage([m EXCEPT !.context.requestedWeight = None],
                                        parseInt(Val(weight)))
                  ELSE Said([m EXCEPT !.state = "awaiting_baggage_weight"], <<"ask_weight">>)
         [] serviceName = "priority_service" ->
               Said([m EXCEPT !.state = "awaiting_priority_confirm"], <<"offer_priority">>)
         [] serviceName = "wheelchair" ->
               Said([m EXCEPT !.state = "awaiting_wheelchair_name"], <<"ask_passenger_name">>)
         [] serviceName = "pet_travel" ->
               Said([m EXCEPT !.state = "awaiting_pet_details"], <<"ask_pet_details">>)
         [] serviceName = "whatsapp_summary" -> sendWhatsapp(m, env)
         [] OTHER -> Said(m, <<"did_not_understand">>)

RequestIntents == ServiceIntents \cup {"whatsapp_summary"}

\* intents.find(i => [...].includes(i.name)): 0 when there is none
firstRequest(intents) ==
    LET ks == {k \in 1..Len(intents) : intents[k].name \in RequestIntents}
    IN IF ks = {} THEN 0 ELSE Least(ks)

\* const nextService = this.context.pendingServices.shift();
\* return this.startService(nextService.type, nextService.entities)
startPending(m, env) ==
    startService([m EXCEPT !.context.pendingServices = Tail(@)],
                 Head(m.context.pendingServices).type,
                 Head(m.context.pendingServices).entities, env)

\* handleServiceRequest(text, intents, entities)
handleServiceRequest(m, text, intents, entities, env) ==
    CASE firstRequest(intents) # 0 ->
            startService(m, intents[firstRequest(intents)].name, entities, env)
      [] hasIntent(intents, "confirm_yes") ->
            IF Len(m.context.pendingServices) > 0
            THEN startPending(m, env)
            ELSE Said(m, <<"great", "list_services">>)
      [] hasIntent(intents, "goodbye") -> endConversation(m)
      [] OTHER -> Said(m, <<"how_may_i_assist">>)

\* extractSeatType(text)
extractSeatType(text) ==
    LET lower == toLowerCase(text)
    IN CASE includes(lower, <<"w","i","n","d","o","w">>) -> Some(<<"w","i","n","d","o","w">>)
         [] includes(lower, <<"a","i","s","l","e">>) -> Some(<<"a","i","s","l","e">>)
         [] includes(lower, <<"e","x","t","r","a">>) \/ includes(lower, <<"l","e","g","r","o","o","m">>) -> Some(<<"e","x","t","r","a","-","l","e","g","r","o","o","m">>)
         [] includes(lower, <<"m","i","d","d","l","e">>) -> Some(<<"m","i","d","d","l","e">>)
         [] OTHER -> None

\* handleSeatTypeInput(text, entities)
handleSeatTypeInput(m, text, entities, env) ==
    LET seatType == orElse(entities.seatType, extractSeatType(text))
    IN IF IsSet(seatType) THEN findSeat(m, Val(seatType), env)
       ELSE Said(m, <<"seat_type_reprompt">>)

\* bookSeat()
bookSeat(m, env) ==
    LET seat == Val(m.context.pendingData)
    IN CASE env.outcome = "throws" -> Called(m, <<"error_try_again">>, "book-seat", env)
         [] env.outcome = "success" ->
               Called([m EXCEPT
                         !.context.completedServices =
                             Append(@, [type |-> <<"s","e","a","t">>, details |-> <<"S","e","a","t"," ">> \o seat.id,
                                        price |-> seat.price]),
                         !.context.totalCost = @ + seat.price,
                         !.context.pendingData = None,
                         !.state = "service_complete"],
                      <<"seat_confirmed", "anything_else">>, "book-seat", env)
         [] OTHER -> Called(m, <<"seat_issue">>, "book-seat", env)

\* handleSeatConfirmation(text)
handleSeatConfirmation(m, text, yes, no, env) ==
    CASE yes -> bookSeat(m, env)
      [] no -> Said([m EXCEPT !.context.pendingData = None, !.state = "awaiting_seat_type"],
                    <<"no_problem", "ask_seat_type">>)
      [] OTHER -> Said(m, <<"seat_yes_or_no">>)

\* extractWeight(text)
extractWeight(text) ==
    LET m == match(text, [op |-> "grp", r |-> [op |-> "seq", rs |-> <<[op |-> "chars", sets |-> <<DigitSet>>], [op |-> "star", r |-> [op |-> "chars", sets |-> <<DigitSet>>]]>>]])
    IN IF IsSet(m) THEN Val(m).group ELSE None

\* handleBaggageWeightInput(text, entities), with extractWeight(text) as extracted
handleBaggageWeightInput(m, text, entities, extracted) ==
    LET weight == orElse(entities.weight, extracted)
    IN IF IsSet(weight) THEN calculateBaggage(m, parseInt(Val(weight)))
       ELSE Said(m, <<"baggage_weight_reprompt">>)

\* A faulty variant of addBaggage: the cost is not added to the total.
addBaggage_ForgetsCost(m, env) ==
    LET weight == Val(m.context.pendingData).weight
        cost == Val(m.context.pendingData).cost
    IN CASE env.outcome = "throws" -> Called(m, <<"error_try_again">>, "add-baggage", env)
         [] env.outcome = "success" ->
               Called([m EXCEPT
                         !.context.completedServices =
                             Append(@, [type |-> <<"b","a","g","g","a","g","e">>,
                                        details |-> numToString(weight) \o <<"k","g"," ","e","x","t","r","a">>,
                                        price |-> cost]),
                         !.context.pendingData = None,
                         !.state = "service_complete"],
                      <<"baggage_added", "anything_else">>, "add-baggage", env)
         [] OTHER -> Called(m, <<"baggage_issue">>, "add-baggage", env)

\* addBaggage()
addBaggage(m, env) ==
    LET weight == Val(m.context.pendingData).weight
        cost == Val(m.context.pendingData).cost
    IN CASE env.outcome = "throws" -> Called(m, <<"error_try_again">>, "add-baggage", env)
         [] env.outcome = "success" ->
               Called([m EXCEPT
                         !.context.completedServices =
                             Append(@, [type |-> <<"b","a","g","g","a","g","e">>,
                                        details |-> numToString(weight) \o <<"k","g"," ","e","x","t","r","a">>,
                                        price |-> cost]),
                         !.context.totalCost = @ + cost,
                         !.context.pendingData = None,
                         !.state = "service_complete"],
                      <<"baggage_added", "anything_else">>, "add-baggage", env)
         [] OTHER -> Called(m, <<"baggage_issue">>, "add-baggage", env)

\* handleBaggageConfirmation(text)
handleBaggageConfirmation(m, text, yes, no, env) ==
    CASE yes -> addBaggage(m, env)
      [] no -> Said([m EXCEPT !.context.pendingData = None, !.state = "service_complete"],
                    <<"no_problem", "anything_else">>)
      [] OTHER -> Said(m, <<"baggage_yes_or_no">>)

\* handlePriorityConfirmation(text)
handlePriorityConfirmation(m, text, yes, no, env) ==
    CASE yes /\ env.outcome = "success" ->
            Called([m EXCEPT
                      !.context.completedServices =
                          Append(@, [type |-> <<"p","r","i","o","r","i","t","y">>,
                                     details |-> <<"P","r","i","o","r","i","t","y"," ","c","h","e","c","k","-","i","n"," ","&"," ","b","o","a","r","d","i","n","g">>,
                                     price |-> 0]),
                      !.state = "service_complete"],
                   <<"priority_activated", "anything_else">>, "priority-service", env)
      [] yes -> Called(m, <<"error_try_again">>, "priority-service", env)
      [] no -> Said([m EXCEPT !.state = "service_complete"], <<"no_problem", "anything_else">>)
      [] OTHER -> Said(m, <<"priority_yes_or_no">>)

\* text.toLowerCase().includes(p.name.toLowerCase().split(' ')[0])
mentions(text, name) ==
    LET lower == toLowerCase(name)
        spaces == {i \in 1..Len(lower) : lower[i] = " "}
        first == IF spaces = {} THEN lower ELSE SubSeq(lower, 1, Least(spaces) - 1)
    IN includes(toLowerCase(text), first)

\* text.match(...) in handleWheelchairNameInput
passengerNameMatch(text) ==
    match(text, [op |-> "seq", rs |-> <<[op |-> "alt", rs |-> <<[op |-> "seq", rs |-> <<[op |-> "chars", sets |-> <<{"F","f"}, {"O","o"}, {"R","r"}>>], [op |-> "seq", rs |-> <<[op |-> "chars", sets |-> <<{" "}>>], [op |-> "star", r |-> [op |-> "chars", sets |-> <<{" "}>>]]>>]>>], [op |-> "seq", rs |-> <<>>]>>], [op |-> "alt", rs |-> <<[op |-> "seq", rs |-> <<[op |-> "chars", sets |-> <<{"M","m"}, {"R","r"}>>], [op |-> "alt", rs |-> <<[op |-> "chars", sets |-> <<{"S","s"}>>], [op |-> "seq", rs |-> <<>>]>>], [op |-> "alt", rs |-> <<[op |-> "chars", sets |-> <<{"."}>>], [op |-> "seq", rs |-> <<>>]>>], [op |-> "star", r |-> [op |-> "chars", sets |-> <<{" "}>>]]>>], [op |-> "seq", rs |-> <<>>]>>], [op |-> "grp", r |-> [op |-> "seq", rs |-> <<[op |-> "chars", sets |-> <<(UpperSet \cup LowerSet)>>], [op |-> "seq", rs |-> <<[op |-> "chars", sets |-> <<(UpperSet \cup LowerSet)>>], [op |-> "star", r |-> [op |-> "chars", sets |-> <<(UpperSet \cup LowerSet)>>]]>>], [op |-> "seq", rs |-> <<[op |-> "seq", rs |-> <<[op |-> "seq", rs |-> <<[op |-> "chars", sets |-> <<{" "}>>], [op |-> "star", r |-> [op |-> "chars", sets |-> <<{" "}>>]]>>], [op |-> "chars", sets |-> <<(UpperSet \cup LowerSet)>>], [op |-> "seq", rs |-> <<[op |-> "chars", sets |-> <<(UpperSet \cup LowerSet)>>], [op |-> "star", r |-> [op |-> "chars", sets |-> <<(UpperSet \cup LowerSet)>>]]>>]>>], [op |-> "star", r |-> [op |-> "seq", rs |-> <<[op |-> "seq", rs |-> <<[op |-> "chars", sets |-> <<{" "}>>], [op |-> "star", r |-> [op |-> "chars", sets |-> <<{" "}>>]]>>], [op |-> "chars", sets |-> <<(UpperSet \cup LowerSet)>>], [op |-> "seq", rs |-> <<[op |-> "chars", sets |-> <<(UpperSet \cup LowerSet)>>], [op |-> "star", r |-> [op |-> "chars", sets |-> <<(UpperSet \cup LowerSet)>>]]>>]>>]]>>]>>]]>>])

\* handleWheelchairNameInput(text, entities), with that match as nameMatch
handleWheelchairNameInput(m, text, entities, nameMatch) ==
       CASE IsSet(nameMatch) ->
               Said([m EXCEPT !.context.pendingData =
                                   Some([passengerName |-> Val(Val(nameMatch).group)]),
                              !.state = "awaiting_wheelchair_type"],
                    <<"wheelchair_for", "ask_assistance_type">>)
         [] ~IsSet(m.context.booking) -> Thrown(m)
         [] \E k \in 1..Len(Val(m.context.booking).passengers) :
                mentions(text, Val(m.context.booking).passengers[k].name) ->
               LET k == Least({j \in 1..Len(Val(m.context.booking).passengers) :
                                 mentions(text, Val(m.context.booking).passengers[j].name)})
               IN Said([m EXCEPT !.context.pendingData =
                                     Some([passengerName |->
                                              Val(m.context.booking).passengers[k].name]),
                                 !.state = "awaiting_wheelchair_type"],
                       <<"wheelchair_for", "ask_assistance_type">>)
         [] OTHER -> Said(m, <<"full_name_reprompt">>)

\* handleWheelchairTypeInput(text, entities)
handleWheelchairTypeInput(m, text, entities, env) ==
    IF env.outcome = "success"
    THEN Called([m EXCEPT
                   !.context.completedServices =
                       Append(@, [type |-> <<"w","h","e","e","l","c","h","a","i","r">>,
                                  details |-> <<"W","h","e","e","l","c","h","a","i","r"," ","f","o","r"," ">>
                                              \o Val(m.context.pendingData).passengerName,
                                  price |-> 0]),
                   !.context.pendingData = None,
                   !.state = "service_complete"],
                <<"wheelchair_arranged", "anything_else">>, "wheelchair", env)
    ELSE Called(m, <<"error_try_again">>, "wheelchair", env)

\* the two text.match(...) in handlePetDetailsInput
petBreedMatch(text) ==
    match(text, [op |-> "grp", r |-> [op |-> "alt", rs |-> <<[op |-> "chars", sets |-> <<{"L","l"}, {"A","a"}, {"B","b"}, {"R","r"}, {"A","a"}, {"D","d"}, {"O","o"}, {"R","r"}>>], [op |-> "chars", sets |-> <<{"R","r"}, {"E","e"}, {"T","t"}, {"R","r"}, {"I","i"}, {"E","e"}, {"V","v"}, {"E","e"}, {"R","r"}>>], [op |-> "seq", rs |-> <<[op |-> "chars", sets |-> <<{"G","g"}, {"E","e"}, {"R","r"}, {"M","m"}, {"A","a"}, {"N","n"}>>], [op |-> "star", r |-> [op |-> "chars", sets |-> <<{" "}>>]], [op |-> "chars", sets |-> <<{"S","s"}, {"H","h"}, {"E","e"}, {"P","p"}, {"H","h"}, {"E","e"}, {"R","r"}, {"D","d"}>>]>>], [op |-> "chars", sets |-> <<{"P","p"}, {"O","o"}, {"O","o"}, {"D","d"}, {"L","l"}, {"E","e"}>>], [op |-> "chars", sets |-> <<{"B","b"}, {"E","e"}, {"A","a"}, {"G","g"}, {"L","l"}, {"E","e"}>>], [op |-> "chars", sets |-> <<{"B","b"}, {"U","u"}, {"L","l"}, {"L","l"}, {"D","d"}, {"O","o"}, {"G","g"}>>], [op |-> "chars", sets |-> <<{"H","h"}, {"U","u"}, {"S","s"}, {"K","k"}, {"Y","y"}>>], [op |-> "chars", sets |-> <<{"G","g"}, {"O","o"}, {"L","l"}, {"D","d"}, {"E","e"}, {"N","n"}>>], [op |-> "chars", sets |-> <<{"P","p"}, {"E","e"}, {"R","r"}, {"S","s"}, {"I","i"}, {"A","a"}, {"N","n"}>>], [op |-> "chars", sets |-> <<{"S","s"}, {"I","i"}, {"A","a"}, {"M","m"}, {"E","e"}, {"S","s"}, {"E","e"}>>], [op |-> "chars", sets |-> <<{"D","d"}, {"O","o"}, {"G","g"}>>], [op |-> "chars", sets |-> <<{"C","c"}, {"A","a"}, {"T","t"}>>]>>]])

petWeightMatch(text) == match(text, [op |-> "seq", rs |-> <<[op |-> "grp", r |-> [op |-> "seq", rs |-> <<[op |-> "chars", sets |-> <<DigitSet>>], [op |-> "star", r |-> [op |-> "chars", sets |-> <<DigitSet>>]]>>]], [op |-> "star", r |-> [op |-> "chars", sets |-> <<{" "}>>]], [op |-> "chars", sets |-> <<{"K","k"}>>], [op |-> "alt", rs |-> <<[op |-> "chars", sets |-> <<{"G","g"}>>], [op |-> "chars", sets |-> <<{"I","i"}, {"L","l"}, {"O","o"}>>]>>]>>])

\* handlePetDetailsInput(text, entities), with those matches as breedMatch, weightMatch
handlePetDetailsInput(m, text, entities, breedMatch, weightMatch) ==
       CASE IsSet(breedMatch) /\ IsSet(weightMatch) ->
               LET pet == [m EXCEPT !.context.pendingData =
                                        Some([breed |-> Val(Val(breedMatch).group),
                                              weight |-> Val(Val(weightMatch).group)])]
               IN IF Len(m.context.completedServices) > 0
                  THEN Said([pet EXCEPT !.state = "awaiting_whatsapp_confirm"],
                            <<"pet_specialist", "offer_summary">>)
                  ELSE Said([pet EXCEPT !.state = "transfer"],
                            <<"pet_specialist", "transfer_now">>)
         [] IsSet(breedMatch) ->
               Said([m EXCEPT !.context.pendingData =
                                  Some([breed |-> Val(Val(breedMatch).group)])],
                    <<"ask_pet_weight">>)
         [] IsSet(weightMatch) ->
               Said([m EXCEPT !.context.pendingData =
                                  Some([weight |-> Val(Val(weightMatch).group)])],
                    <<"ask_pet_breed">>)
         [] OTHER -> Said(m, <<"pet_details_reprompt">>)

\* handleWhatsappConfirmation(text)
handleWhatsappConfirmation(m, text, yes, no, env) ==
    CASE yes -> sendWhatsapp(m, env)
      [] no -> IF hasBreed(m) THEN initiateTransfer(m)
               ELSE Said([m EXCEPT !.state = "service_complete"], <<"alright", "anything_else">>)
      [] OTHER -> Said(m, <<"summary_yes_or_no">>)

\* handleNextServiceOrEnd(text, intents, entities)
handleNextServiceOrEnd(m, text, intents, entities, env) ==
    CASE firstRequest(intents) # 0 ->
            startService(m, intents[firstRequest(intents)].name, entities, env)
      [] Len(m.context.pendingServices) > 0 -> startPending(m, env)
      [] hasIntent(intents, "confirm_no") \/ hasIntent(intents, "goodbye") -> endConversation(m)
      [] hasIntent(intents, "confirm_yes") -> Said(m, <<"what_else">>)
      [] OTHER -> Said(m, <<"anything_else_today">>)

\* text.match(...) at the head of processInput
customerNameMatch(text) == match(text, [op |-> "seq", rs |-> <<[op |-> "alt", rs |-> <<[op |-> "chars", sets |-> <<{"T","t"}, {"H","h"}, {"I","i"}, {"S","s"}, {" "}, {"I","i"}, {"S","s"}>>], [op |-> "chars", sets |-> <<{"I","i"}, {" "}, {"A","a"}, {"M","m"}>>], [op |-> "chars", sets |-> <<{"M","m"}, {"Y","y"}, {" "}, {"N","n"}, {"A","a"}, {"M","m"}, {"E","e"}, {" "}, {"I","i"}, {"S","s"}>>], [op |-> "chars", sets |-> <<{"I","i"}, {"'"}, {"M","m"}>>]>>], [op |-> "seq", rs |-> <<[op |-> "chars", sets |-> <<{" "}>>], [op |-> "star", r |-> [op |-> "chars", sets |-> <<{" "}>>]]>>], [op |-> "grp", r |-> [op |-> "seq", rs |-> <<[op |-> "chars", sets |-> <<(UpperSet \cup LowerSet)>>], [op |-> "seq", rs |-> <<[op |-> "chars", sets |-> <<(UpperSet \cup LowerSet)>>], [op |-> "star", r |-> [op |-> "chars", sets |-> <<(UpperSet \cup LowerSet)>>]]>>]>>]]>>])

\* the customer's name, taken from the text when none is known yet
withCustomerName(m, nameMatch) ==
    IF ~IsSet(m.context.customerName) /\ IsSet(nameMatch)
    THEN [m EXCEPT !.context.customerName = Val(nameMatch).group]
    ELSE m

\* everything processInput and its handlers compute from the text alone
understand(text) ==
    [entities |-> extractAllEntities(text),
     intents |-> detectMultipleIntents(text),
     isConfirmation |-> isConfirmation(text),
     isDenial |-> isDenial(text),
     customerName |-> customerNameMatch(text),
     pnr |-> pnrMatchOf(text),
     weight |-> extractWeight(text),
     passengerName |-> passengerNameMatch(text),
     petBreed |-> petBreedMatch(text),
     petWeight |-> petWeightMatch(text)]

\* processInput(text), with understand(text) as u
processInput(m0, text, u, env) ==
    LET m == withCustomerName(m0, u.customerName)
        entities == u.entities
        intents == u.intents
        yes == u.isConfirmation
        no == u.isDenial
    IN CASE m.state = "greeting" -> handleGreeting(m, text, entities, intents, env)
         [] m.state = "awaiting_pnr" -> handlePnrInput(m, text, entities, u.pnr, env)
         [] m.state = "pnr_confirmed" -> handleServiceRequest(m, text, intents, entities, env)
         [] m.state = "awaiting_seat_type" -> handleSeatTypeInput(m, text, entities, env)
         [] m.state = "awaiting_seat_confirm" -> handleSeatConfirmation(m, text, yes, no, env)
         [] m.state = "awaiting_baggage_weight" -> handleBaggageWeightInput(m, text, entities, u.weight)
         [] m.state = "awaiting_baggage_confirm" ->
               handleBaggageConfirmation(m, text, yes, no, env)
         [] m.state = "awaiting_priority_confirm" ->
               handlePriorityConfirmation(m, text, yes, no, env)
         [] m.state = "awaiting_wheelchair_name" -> handleWheelchairNameInput(m, text, entities, u.passengerName)
         [] m.state = "awaiting_wheelchair_type" ->
               handleWheelchairTypeInput(m, text, entities, env)
         [] m.state = "awaiting_pet_details" -> handlePetDetailsInput(m, text, entities, u.petBreed, u.petWeight)
         [] m.state = "awaiting_whatsapp_confirm" ->
               handleWhatsappConfirmation(m, text, yes, no, env)
         [] m.state = "service_complete" -> handleNextServiceOrEnd(m, text, intents, entities, env)
         [] OTHER -> handleServiceRequest(m, text, intents, entities, env)

\* what customers say to the manager, by the state it is in
ManagerInputsFor(state) ==
    CASE state = "idle" -> {<<"w","h","e","e","l","c","h","a","i","r">>, <<"y","e","s">>}
      [] state = "greeting" ->
            {<<"h","e","l","l","o">>, <<"T","h","i","s"," ","i","s"," ","R","a","h","u","l",","," ","I"," ","n","e","e","d"," ","a"," ","w","i","n","d","o","w"," ","s","e","a","t"," ","a","n","d"," ","1","0"," ","k","g"," ","e","x","t","r","a"," ","b","a","g","g","a","g","e",","," ","P","N","R"," ","A","B","C","1","2","3">>,
             <<"m","y"," ","p","n","r"," ","i","s"," ","x","y","z","7","8","9">>, <<"I"," ","w","a","n","t"," ","p","r","i","o","r","i","t","y"," ","b","o","a","r","d","i","n","g">>}
      [] state = "awaiting_pnr" -> {<<"A","B","C","1","2","3">>, <<"Z","Z","Z","9","9","9">>, <<"a","b","c"," ","1","2">>}
      [] state = "pnr_confirmed" ->
            {<<"y","e","s">>, <<"s","e","a","t"," ","s","e","l","e","c","t","i","o","n">>, <<"I"," ","n","e","e","d"," ","e","x","t","r","a"," ","b","a","g","g","a","g","e">>, <<"p","r","i","o","r","i","t","y"," ","b","o","a","r","d","i","n","g">>,
             <<"w","h","e","e","l","c","h","a","i","r">>, <<"p","e","t">>, <<"s","e","n","d"," ","s","u","m","m","a","r","y">>, <<"b","y","e">>, <<"h","m","m">>}
      [] state = "awaiting_seat_type" -> {<<"w","i","n","d","o","w">>, <<"p","r","e","m","i","u","m">>, <<"h","m","m">>}
      [] state = "awaiting_baggage_weight" -> {<<"1","0"," ","k","g">>, <<"6">>, <<"h","m","m">>}
      [] state = "awaiting_wheelchair_name" -> {<<"M","r","."," ","R","a","h","u","l"," ","S","h","a","r","m","a">>, <<"r","a","h","u","l">>, <<"h","m","m">>}
      [] state = "awaiting_wheelchair_type" -> {<<"g","a","t","e"," ","t","o"," ","g","a","t","e">>, <<"y","e","s">>}
      [] state = "awaiting_pet_details" -> {<<"l","a","b","r","a","d","o","r"," ","1","2"," ","k","g">>, <<"p","o","o","d","l","e">>, <<"1","0"," ","k","g">>, <<"h","m","m">>}
      [] state = "service_complete" ->
            {<<"y","e","s">>, <<"n","o">>, <<"s","e","n","d"," ","s","u","m","m","a","r","y">>, <<"p","e","t">>, <<"s","e","a","t"," ","s","e","l","e","c","t","i","o","n">>, <<"h","m","m">>}
      [] state \in {"transfer", "ended"} -> {<<"y","e","s">>, <<"s","e","n","d"," ","s","u","m","m","a","r","y">>}
      [] OTHER -> {<<"y","e","s">>, <<"n","o">>, <<"h","m","m">>}

ManagerStates ==
    {"idle", "greeting", "awaiting_pnr", "pnr_confirmed", "awaiting_seat_type",
     "awaiting_seat_confirm", "awaiting_baggage_weight", "awaiting_baggage_confirm",
     "awaiting_priority_confirm", "awaiting_wheelchair_name", "awaiting_wheelchair_type",
     "awaiting_pet_details", "awaiting_whatsapp_confirm", "service_complete", "transfer",
     "ended"}

\* every text a customer says in the model, and what the intent engine makes of each
ManagerUtterances ==
    LET all == UNION {ManagerInputsFor(state) : state \in ManagerStates}
        RECURSIVE listed(_)
        listed(S) == IF S = {} THEN <<>>
                     ELSE LET t == CHOOSE t \in S : TRUE IN <<t>> \o listed(S \ {t})
    IN listed(all)

understood ==
    SubSeq([i \in 1..Len(ManagerUtterances) |-> understand(ManagerUtterances[i])],
           1, Len(ManagerUtterances))

heard(text) == understood[CHOOSE i \in 1..Len(ManagerUtterances) : ManagerUtterances[i] = text]

\* before the manager has answered anything
noReply == [text |-> None, response |-> None, called |-> None, outcome |-> None]

\* startCall()
ManagerStartCall ==
    /\ manager' = managerStartCall(manager).manager
    /\ reply' = [noReply EXCEPT !.response = Some(managerStartCall(manager).response)]
    /\ UNCHANGED exceptManager

\* the manager after processInput(text) has returned r, and the reply kept of it
Answered(text, r) ==
    /\ Len(r.manager.context.completedServices) <= MaxCompleted
    /\ manager' = r.manager
    /\ reply' = [text |-> Some(text), response |-> Some(r.response),
                 called |-> r.called, outcome |-> r.outcome]
    /\ UNCHANGED exceptManager

\* processInput(text), with the collaborator ending the call it gets in any way
ProcessInput ==
    \E text \in ManagerInputsFor(manager.state) : \E env \in Envs :
        Answered(text, processInput(manager, text, heard(text), env))


(***************************************************************************)
(* The chat endpoint.                                                      *)
(***************************************************************************)
\* Every request carries a sessionId (one without is answered 400 and touches nothing).
SessionIds == {"session_1", "session_2"}

\* the sessions the requests of Spec are for
CallerIds == {"session_1"}

\* the longest unknownRequests list the model follows
MaxUnknown == 1

\* what customers say, by the state the session is in
CommonInputs == {<<"y","e","s">>, <<"n","o">>, <<"m","a","y","b","e">>}

NameInputs == {<<"T","h","i","s"," ","i","s"," ","R","a","h","u","l">>, <<"r","a","h","u","l">>, <<"R","a","h","u","l"," ","s","p","e","a","k","i","n","g">>, <<"R","a","h","u","l",","," ","h","e","l","l","o">>, <<"4","2">>}

ServiceInputs == {<<"I"," ","n","e","e","d"," ","a"," ","w","i","n","d","o","w"," ","s","e","a","t",","," ","P","N","R"," ","A","B","C","1","2","3">>, <<"e","x","t","r","a"," ","b","a","g","g","a","g","e"," ","a","n","d"," ","p","r","i","o","r","i","t","y"," ","c","h","e","c","k","-","i","n">>,
                  <<"w","h","e","e","l","c","h","a","i","r"," ","a","n","d"," ","p","e","t"," ","t","r","a","v","e","l">>, <<"p","e","t">>, <<"b","a","g","g","a","g","e">>, <<"s","e","a","t"," ","X","Y","Z","7","8","9">>,
                  <<"u","p","g","r","a","d","e"," ","m","y"," ","m","e","a","l">>, <<"h","e","l","l","o">>}

PnrInputs == {<<"A","B","C","1","2","3">>, <<"m","y"," ","p","n","r"," ","i","s"," ","x","y","z","7","8","9">>, <<"Z","Z","Z","9","9","9">>}

YesNoInputs == {<<" ","S","u","r","e"," ">>, <<"N","o",","," ","t","h","a","t"," ","i","s"," ","w","r","o","n","g">>}

SeatTypeInputs == {<<"w","i","n","d","o","w">>, <<"A","i","s","l","e"," ","p","l","e","a","s","e">>, <<"e","x","t","r","a"," ","l","e","g","r","o","o","m">>}

BaggageInputs == {<<"1","0"," ","k","g">>, <<"6">>}

WheelchairNameInputs == {<<"M","r","."," ","S","h","a","r","m","a">>, <<"4","2">>}

WheelchairTypeInputs == {<<"g","a","t","e"," ","t","o"," ","g","a","t","e">>, <<"u","n","t","i","l"," ","b","o","a","r","d","i","n","g">>}

PetInputs == {<<"l","a","b","r","a","d","o","r"," ","1","2"," ","k","g">>, <<"1","2">>, <<"a"," ","p","o","o","d","l","e">>}

WhatsappInputs == {<<"s","o","m","e","t","h","i","n","g"," ","e","l","s","e">>, <<"n","o"," ","m","o","r","e">>, <<"a","n","o","t","h","e","r">>}

InputsFor(state) ==
    CASE state = STATES.WAITING_NAME -> NameInputs
      [] state = STATES.WAITING_SERVICE_CHOICE -> ServiceInputs \cup CommonInputs
      [] state = STATES.WAITING_PNR -> PnrInputs \cup CommonInputs
      [] state = STATES.SEAT_TYPE -> SeatTypeInputs \cup CommonInputs
      [] state = STATES.BAGGAGE_AMOUNT -> BaggageInputs \cup CommonInputs
      [] state = STATES.WHEELCHAIR_NAME -> WheelchairNameInputs
      [] state = STATES.WHEELCHAIR_TYPE -> WheelchairTypeInputs \cup CommonInputs
      [] state = STATES.PET_DETAILS -> PetInputs \cup CommonInputs
      [] state \in {STATES.WHATSAPP_CONFIRM, STATES.TRANSFER, STATES.COMPLETED} ->
            WhatsappInputs \cup YesNoInputs \cup CommonInputs
      [] OTHER -> YesNoInputs \cup CommonInputs

\* sessions.get(sessionId): None when the map has no such key
getSession(sessionId) == sessions[sessionId]

\* res.json({ response }) and res.json({ response, booking, state }): the booking sent
\* is the session's
greetingReply == [status |-> 200, response |-> Some(<<"greeting">>), state |-> None]
turnReply(r) == [status |-> 200, response |-> Some(r.response), state |-> Some(r.session.state)]

\* if (isStart || !session)
startsNewCall(session, isStart) == isStart \/ ~IsSet(session)

\* A faulty variant of ChatStart: session.state is left as createSession made it.
ChatStart_LeavesGreetingState(sessionId, isStart) ==
    /\ isStart \/ ~IsSet(sessions[sessionId])
    /\ sessions' = [sessions EXCEPT ![sessionId] = Some(createSession)]
    /\ res' = [status |-> 200, response |-> Some(<<"greeting">>), state |-> None]

\* A faulty variant of ChatStart: a session that exists is kept and only put back to
\* WAITING_NAME.
ChatStart_ReusesSession(sessionId, isStart) ==
    /\ isStart \/ ~IsSet(sessions[sessionId])
    /\ sessions' = [sessions EXCEPT
                      ![sessionId] = Some([(IF IsSet(@) THEN Val(@) ELSE createSession)
                                              EXCEPT !.state = STATES.WAITING_NAME])]
    /\ res' = [status |-> 200, response |-> Some(<<"greeting">>), state |-> None]

\* a request that starts a call: the session is created and the agent greets
ChatStart(sessionId, isStart) ==
    /\ startsNewCall(getSession(sessionId), isStart)
    /\ sessions' = [sessions EXCEPT
                      ![sessionId] = Some([createSession EXCEPT !.state = STATES.WAITING_NAME])]
    /\ res' = greetingReply

\* the request is a turn of an existing session, which is in the given state
turnOf(sessionId, state) ==
    /\ ~startsNewCall(getSession(sessionId), FALSE)
    /\ Val(getSession(sessionId)).state = state

\* A faulty variant of ChatTurn: the customer's name is kept in one place for all
\* sessions.
ChatTurn_SharedName(sessionId, message) ==
    LET r == processMessage(Val(getSession(sessionId)), message)
    IN /\ Len(r.session.unknownRequests) <= MaxUnknown
       /\ sessions' = [id \in SessionIds |->
                          IF id = sessionId THEN Some(r.session)
                          ELSE IF IsSet(sessions[id])
                               THEN Some([Val(sessions[id]) EXCEPT
                                            !.customerName = r.session.customerName])
                               ELSE None]
       /\ res' = turnReply(r)

\* a turn: the message is processed by the handler of the session's state
ChatTurn(sessionId, message) ==
    LET r == processMessage(Val(getSession(sessionId)), message)
    IN /\ Len(r.session.unknownRequests) <= MaxUnknown
       /\ sessions' = [sessions EXCEPT ![sessionId] = Some(r.session)]
       /\ res' = turnReply(r)

TurnIn(ids, state) ==
    /\ \E sessionId \in ids :
          /\ turnOf(sessionId, state)
          /\ \E message \in InputsFor(state) : ChatTurn(sessionId, message)
    /\ UNCHANGED clientVars

StartCall ==
    /\ \E sessionId \in CallerIds : ChatStart(sessionId, TRUE)
    /\ UNCHANGED clientVars
TurnWithoutSession ==
    /\ \E sessionId \in CallerIds : ChatStart(sessionId, FALSE)
    /\ UNCHANGED clientVars
TurnName == TurnIn(CallerIds, STATES.WAITING_NAME)
TurnServiceChoice == TurnIn(CallerIds, STATES.WAITING_SERVICE_CHOICE)
TurnPnr == TurnIn(CallerIds, STATES.WAITING_PNR)
TurnFlightConfirmation == TurnIn(CallerIds, STATES.CONFIRMING_FLIGHT)
TurnSeatType == TurnIn(CallerIds, STATES.SEAT_TYPE)
TurnSeatConfirm == TurnIn(CallerIds, STATES.SEAT_CONFIRM)
TurnBaggageAmount == TurnIn(CallerIds, STATES.BAGGAGE_AMOUNT)
TurnBaggageConfirm == TurnIn(CallerIds, STATES.BAGGAGE_CONFIRM)
TurnPriorityConfirm == TurnIn(CallerIds, STATES.PRIORITY_CONFIRM)
TurnWheelchairName == TurnIn(CallerIds, STATES.WHEELCHAIR_NAME)
TurnWheelchairType == TurnIn(CallerIds, STATES.WHEELCHAIR_TYPE)
TurnPetDetails == TurnIn(CallerIds, STATES.PET_DETAILS)
TurnWhatsappConfirm == TurnIn(CallerIds, STATES.WHATSAPP_CONFIRM)
TurnTransfer == TurnIn(CallerIds, STATES.TRANSFER)
TurnCompleted == TurnIn(CallerIds, STATES.COMPLETED)

\* the server has no session, the page and the manager are as constructed
Constructed ==
    /\ sessions = [sessionId \in SessionIds |-> None]
    /\ res = [status |-> 200, response |-> None, state |-> None]
    /\ app = newApp
    /\ voice = newVoiceEngine
    /\ tasks = {}
    /\ now = 0
    /\ manager = newManager
    /\ reply = noReply

Init ==
    /\ Constructed
    /\ probe = None

Next ==
    \/ StartCall
    \/ TurnWithoutSession
    \/ TurnName
    \/ TurnServiceChoice
    \/ TurnPnr
    \/ TurnFlightConfirmation
    \/ TurnSeatType
    \/ TurnSeatConfirm
    \/ TurnBaggageAmount
    \/ TurnBaggageConfirm
    \/ TurnPriorityConfirm
    \/ TurnWheelchairName
    \/ TurnWheelchairType
    \/ TurnPetDetails
    \/ TurnWhatsappConfirm
    \/ TurnTransfer
    \/ TurnCompleted

Spec == Init /\ [][Next]_vars


(***************************************************************************)
(* Two callers at once: requests for session_1 and session_2 arrive in any *)
(* order.  Each handler runs to completion before the next request is      *)
(* taken (server.js has no await inside the route).                        *)
(***************************************************************************)
\* what the two callers say, by the state their session is in
TwoCallerInputsFor(state) ==
    CASE state = STATES.WAITING_NAME -> {<<"r","a","h","u","l">>}
      [] state = STATES.WAITING_SERVICE_CHOICE -> {<<"s","e","a","t"," ","X","Y","Z","7","8","9">>, <<"p","e","t">>}
      [] state = STATES.WAITING_PNR -> {<<"A","B","C","1","2","3">>}
      [] state = STATES.SEAT_TYPE -> {<<"w","i","n","d","o","w">>}
      [] state = STATES.PET_DETAILS -> {<<"1","2">>}
      [] OTHER -> {<<"y","e","s">>, <<"n","o">>}

StartEither ==
    /\ \E sessionId \in SessionIds : ChatStart(sessionId, TRUE)
    /\ UNCHANGED clientVars

TurnWithoutSessionEither ==
    /\ \E sessionId \in SessionIds : ChatStart(sessionId, FALSE)
    /\ UNCHANGED clientVars

TurnEither ==
    /\ \E sessionId \in SessionIds :
          /\ ~startsNewCall(getSession(sessionId), FALSE)
          /\ \E message \in TwoCallerInputsFor(Val(getSession(sessionId)).state) :
                ChatTurn(sessionId, message)
    /\ UNCHANGED clientVars

NextTwoCallers ==
    \/ StartEither
    \/ TurnWithoutSessionEither
    \/ TurnEither

SpecTwoCallers == Init /\ [][NextTwoCallers]_vars

SpecClient == Init /\ [][NextClient]_vars

(***************************************************************************)
(* A conversation with the ConversationManager.                            *)
(***************************************************************************)
NextManager ==
    \/ ManagerStartCall
    \/ ProcessInput

SpecManager == Init /\ [][NextManager]_vars

(***************************************************************************)
(* PNR extraction on its own: a text is a PNR-shaped token among other     *)
(* words, and both the client's and the server's extraction are applied    *)
(* to it.                                                                  *)
(***************************************************************************)
\* three letters and three digits, or six letters and digits
PnrTokens == {<<"A","B","C","1","2","3">>, <<"x","y","z","7","8","9">>, <<"D","e","f","4","5","6">>, <<"A","B","1","2","C","D">>, <<"1","a","2","b","3","c">>, <<"Q","W","E","R","T","Y">>}

\* the words before and after the token; none of them is six characters long
WordsBefore == {<<>>, <<"m","y"," ","p","n","r"," ","i","s"," ">>, <<"b","o","o","k","i","n","g"," ">>, <<"t","h","e"," ","c","o","d","e"," ","i","s"," ">>, <<"h","i",","," ">>}
WordsAfter == {<<>>, <<" ","o","k">>, <<" ","t","h","a","n","k"," ","y","o","u">>, <<" ","f","o","r"," ","t","o","m","o","r","r","o","w">>}

PnrProbes ==
    {[token |-> token, text |-> before \o token \o after, extracted |-> FALSE,
      client |-> None, server |-> None] :
        token \in PnrTokens, before \in WordsBefore, after \in WordsAfter}

InitPnr ==
    /\ Constructed
    /\ probe \in PnrProbes

\* this.intentEngine.extractEntity('pnr', text) and the match of handlePnr
ExtractPnr ==
    /\ ~probe.extracted
    /\ probe' = [probe EXCEPT !.extracted = TRUE,
                              !.client = extractEntity("pnr", probe.text),
                              !.server = matchPnr(probe.text)]
    /\ UNCHANGED <<serverVars, appVars, managerVars>>

NextPnr == ExtractPnr

SpecPnr == InitPnr /\ [][NextPnr]_vars

(***************************************************************************)
(* The baggage quote on its own: the customer asks for kg kilograms of     *)
(* the server (a session that waits at BAGGAGE_AMOUNT) and of the client's *)
(* ConversationManager (waiting at awaiting_baggage_weight), and confirms. *)
(***************************************************************************)
\* the heaviest baggage asked for
MaxKg == 60

\* the customer says the number, with or without the unit
BaggageProbes ==
    {[kg |-> kg, text |-> numToString(kg) \o unit] : kg \in 1..MaxKg, unit \in {<<" ","k","g">>, <<>>}}

InitBaggage ==
    /\ Constructed
    /\ probe \in BaggageProbes

\* what the customer says to the server on the way to the question for the kilograms
baggageCall(state) ==
    CASE state = STATES.WAITING_NAME -> <<"r","a","h","u","l">>
      [] state = STATES.WAITING_SERVICE_CHOICE -> <<"b","a","g","g","a","g","e">>
      [] state = STATES.WAITING_PNR -> <<"A","B","C","1","2","3">>
      [] state = STATES.CONFIRMING_FLIGHT -> <<"y","e","s">>
      [] state = STATES.BAGGAGE_AMOUNT -> probe.text
      [] state = STATES.BAGGAGE_CONFIRM -> <<"y","e","s">>

\* the call begins
ServerOpensBaggage ==
    /\ ~IsSet(getSession("session_1"))
    /\ ChatStart("session_1", TRUE)
    /\ UNCHANGED clientVars

\* the turns up to the question for the kilograms
ServerLeadsToBaggage ==
    /\ \E state \in {STATES.WAITING_NAME, STATES.WAITING_SERVICE_CHOICE,
                     STATES.WAITING_PNR, STATES.CONFIRMING_FLIGHT} :
          /\ turnOf("session_1", state)
          /\ ChatTurn("session_1", baggageCall(state))
    /\ UNCHANGED clientVars

\* the turn with the kilograms on the server
ServerQuotesBaggage ==
    /\ turnOf("session_1", STATES.BAGGAGE_AMOUNT)
    /\ ChatTurn("session_1", baggageCall(STATES.BAGGAGE_AMOUNT))
    /\ UNCHANGED clientVars

\* the customer's yes on the server
ServerRecordsBaggage ==
    /\ turnOf("session_1", STATES.BAGGAGE_CONFIRM)
    /\ ChatTurn("session_1", baggageCall(STATES.BAGGAGE_CONFIRM))
    /\ UNCHANGED clientVars

\* what the customer says to the manager; the PNR is said after the greeting, so
\* that handleGreeting stores no weight for later
baggageConversation(state) ==
    CASE state = "greeting" -> <<"h","e","l","l","o">>
      [] state = "awaiting_pnr" -> <<"x","y","z","7","8","9">>
      [] state = "pnr_confirmed" -> <<"I"," ","n","e","e","d"," ","e","x","t","r","a"," ","b","a","g","g","a","g","e">>
      [] state = "awaiting_baggage_weight" -> probe.text
      [] state = "awaiting_baggage_confirm" -> <<"y","e","s">>

\* what the engines make of the texts of this specification, computed once
baggageHeard ==
    [text \in {p.text : p \in BaggageProbes}
                \cup {<<"h","e","l","l","o">>, <<"x","y","z","7","8","9">>, <<"I"," ","n","e","e","d"," ","e","x","t","r","a"," ","b","a","g","g","a","g","e">>, <<"y","e","s">>} |-> understand(text)]

\* processInput(text) of the manager
ManagerHears(text, env) ==
    Answered(text, processInput(manager, text, baggageHeard[text], env))

\* the conversation begins
ClientOpensBaggage ==
    /\ manager.state = "idle"
    /\ ManagerStartCall

\* the turns up to the question for the kilograms
ClientLeadsToBaggage ==
    \E state \in {"greeting", "awaiting_pnr", "pnr_confirmed"} : \E env \in Envs :
        /\ manager.state = state
        /\ ManagerHears(baggageConversation(state), env)

\* the kilograms said to the manager
ClientQuotesBaggage ==
    /\ manager.state = "awaiting_baggage_weight"
    /\ \E env \in Envs : ManagerHears(baggageConversation("awaiting_baggage_weight"), env)

\* the customer's yes to the manager, the backend adding the baggage or failing
ClientRecordsBaggage ==
    /\ manager.state = "awaiting_baggage_confirm"
    /\ \E env \in Envs : ManagerHears(baggageConversation("awaiting_baggage_confirm"), env)

NextBaggage ==
    \/ ServerOpensBaggage
    \/ ServerLeadsToBaggage
    \/ ServerQuotesBaggage
    \/ ServerRecordsBaggage
    \/ ClientOpensBaggage
    \/ ClientLeadsToBaggage
    \/ ClientQuotesBaggage
    \/ ClientRecordsBaggage

SpecBaggage == InitBaggage /\ [][NextBaggage]_vars

(***************************************************************************)
(* The IntentEngine on its own: detectIntents, isConfirmation and isDenial *)
(* are applied to an utterance made of a beginning and a continuation.     *)
(***************************************************************************)
\* how an utterance begins
Beginnings == {<<>>, <<"y","e","s"," ">>, <<"y","e","a","h",","," ">>, <<"o","k",","," ">>, <<"s","u","r","e"," ">>, <<"r","i","g","h","t",","," ">>, <<"n","o",","," ">>, <<"n","o","p","e"," ">>, <<"n","o","t"," ","n","o","w",","," ">>,
               <<"w","e","l","l",","," ">>, <<"n","o","t","h","i","n","g",","," ">>, <<"h","m","m"," ">>}

\* how it goes on
Continuations == {<<>>, <<"p","l","e","a","s","e"," ","d","o">>, <<"g","o"," ","a","h","e","a","d">>, <<"c","a","n","c","e","l"," ","i","t">>, <<"I"," ","d","o","n","'","t"," ","k","n","o","w">>, <<"n","e","v","e","r"," ","m","i","n","d">>,
                  <<"t","h","a","t","'","s"," ","r","i","g","h","t">>, <<"I"," ","n","e","e","d"," ","a"," ","w","i","n","d","o","w"," ","s","e","a","t">>, <<"t","h","a","n","k","s">>, <<"I"," ","s","a","i","d"," ","y","e","s">>, <<"b","o","o","k"," ","i","t",","," ","n","o">>}

IntentProbes ==
    {[text |-> beginning \o continuation, detected |-> FALSE, intents |-> <<>>,
      classified |-> FALSE, confirmation |-> FALSE, denial |-> FALSE] :
        beginning \in Beginnings, continuation \in Continuations}

InitIntents ==
    /\ Constructed
    /\ probe \in IntentProbes

\* this.intentEngine.detectIntents(text)
DetectIntents ==
    /\ ~probe.detected
    /\ probe' = [probe EXCEPT !.detected = TRUE, !.intents = detectIntents(probe.text)]
    /\ UNCHANGED <<serverVars, appVars, managerVars>>

\* this.intentEngine.isConfirmation(text) and this.intentEngine.isDenial(text)
ClassifyYesNo ==
    /\ ~probe.classified
    /\ probe' = [probe EXCEPT !.classified = TRUE,
                              !.confirmation = isConfirmation(probe.text),
                              !.denial = isDenial(probe.text)]
    /\ UNCHANGED <<serverVars, appVars, managerVars>>

NextIntents ==
    \/ DetectIntents
    \/ ClassifyYesNo

SpecIntents == InitIntents /\ [][NextIntents]_vars

(***************************************************************************)
(* A customer who comes back for more: one caller whose answers lead       *)
(* through the services and, at WHATSAPP_CONFIRM, back to the intake.      *)
(***************************************************************************)
\* what the caller says, by the state the session is in
ReturningInputsFor(state) ==
    CASE state = STATES.WAITING_NAME -> {<<"r","a","h","u","l">>}
      [] state = STATES.WAITING_SERVICE_CHOICE ->
            {<<"b","a","g","g","a","g","e">>, <<"I"," ","n","e","e","d"," ","a"," ","w","i","n","d","o","w"," ","s","e","a","t"," ","a","n","d"," ","e","x","t","r","a"," ","b","a","g","g","a","g","e">>, <<"p","r","i","o","r","i","t","y"," ","c","h","e","c","k","-","i","n">>}
      [] state = STATES.WAITING_PNR -> {<<"A","B","C","1","2","3">>}
      [] state = STATES.SEAT_TYPE -> {<<"w","i","n","d","o","w">>, <<"a","i","s","l","e">>}
      [] state = STATES.BAGGAGE_AMOUNT -> {<<"1","0"," ","k","g">>, <<"6">>}
      [] state = STATES.WHATSAPP_CONFIRM -> {<<"s","o","m","e","t","h","i","n","g"," ","e","l","s","e">>, <<"y","e","s">>, <<"n","o">>}
      [] OTHER -> {<<"y","e","s">>, <<"n","o">>}

StartReturning ==
    /\ ~IsSet(getSession("session_1"))
    /\ ChatStart("session_1", TRUE)
    /\ UNCHANGED clientVars

TurnReturning ==
    /\ ~startsNewCall(getSession("session_1"), FALSE)
    /\ \E message \in ReturningInputsFor(Val(getSession("session_1")).state) :
          ChatTurn("session_1", message)
    /\ UNCHANGED clientVars

NextReturning ==
    \/ StartReturning
    \/ TurnReturning

SpecReturning == Init /\ [][NextReturning]_vars

(***************************************************************************)
(* A customer who, from some turn on, answers what the agent asks for. The *)
(* probe tells whether the customer says anything ("any") or only what the *)
(* state accepts ("accepting"); an accepting customer keeps answering      *)
(* until the call is over.                                                 *)
(***************************************************************************)
\* the inputs a state accepts: a name, a service keyword, a resolvable PNR, a seat type,
\* a number of kilograms, a passenger name, an assistance type, pet details, a yes
AcceptedInputsFor(state) ==
    CASE state = STATES.WAITING_NAME -> {<<"T","h","i","s"," ","i","s"," ","R","a","h","u","l">>, <<"r","a","h","u","l">>}
      [] state = STATES.WAITING_SERVICE_CHOICE ->
            {<<"e","x","t","r","a"," ","b","a","g","g","a","g","e"," ","a","n","d"," ","p","r","i","o","r","i","t","y"," ","c","h","e","c","k","-","i","n">>, <<"w","h","e","e","l","c","h","a","i","r"," ","a","n","d"," ","p","e","t"," ","t","r","a","v","e","l">>,
             <<"s","e","a","t"," ","X","Y","Z","7","8","9">>}
      [] state = STATES.WAITING_PNR -> {<<"A","B","C","1","2","3">>, <<"m","y"," ","p","n","r"," ","i","s"," ","x","y","z","7","8","9">>}
      [] state = STATES.SEAT_TYPE -> SeatTypeInputs
      [] state = STATES.BAGGAGE_AMOUNT -> BaggageInputs
      [] state = STATES.WHEELCHAIR_NAME -> {<<"M","r","."," ","S","h","a","r","m","a">>}
      [] state = STATES.WHEELCHAIR_TYPE -> WheelchairTypeInputs
      [] state = STATES.PET_DETAILS -> PetInputs
      [] OTHER -> {<<"y","e","s">>, <<" ","S","u","r","e"," ">>}

InitCooperative ==
    /\ Constructed
    /\ probe = "any"

StartAnyCall ==
    /\ probe = "any"
    /\ ChatStart("session_1", TRUE)
    /\ UNCHANGED clientVars

TurnAny ==
    /\ probe = "any"
    /\ ~startsNewCall(getSession("session_1"), FALSE)
    /\ \E message \in ReturningInputsFor(Val(getSession("session_1")).state) :
          ChatTurn("session_1", message)
    /\ UNCHANGED clientVars

\* from now on the customer gives what is asked for
Settle ==
    /\ probe = "any"
    /\ probe' = "accepting"
    /\ UNCHANGED <<serverVars, appVars, managerVars>>

TurnAccepted ==
    /\ probe = "accepting"
    /\ ~startsNewCall(getSession("session_1"), FALSE)
    /\ Val(getSession("session_1")).state \notin {STATES.TRANSFER, STATES.COMPLETED}
    /\ \E message \in AcceptedInputsFor(Val(getSession("session_1")).state) :
          ChatTurn("session_1", message)
    /\ UNCHANGED clientVars

NextCooperative ==
    \/ StartAnyCall
    \/ TurnAny
    \/ Settle
    \/ TurnAccepted

SpecCooperative == InitCooperative /\ [][NextCooperative]_vars /\ WF_vars(TurnAccepted)

(***************************************************************************)
(* Properties of the server state machine.                                 *)
(***************************************************************************)
\* the sessions the server holds
Live == {sessionId \in SessionIds : IsSet(sessions[sessionId])}

ServiceStates == {STATES.SEAT_TYPE, STATES.SEAT_CONFIRM, STATES.BAGGAGE_AMOUNT,
                  STATES.BAGGAGE_CONFIRM, STATES.PRIORITY_CONFIRM, STATES.WHEELCHAIR_NAME,
                  STATES.WHEELCHAIR_TYPE, STATES.PET_DETAILS}

TerminalStates == {STATES.TRANSFER, STATES.COMPLETED}

\* the step is the answer to a turn (not to a request that starts a call) and the
\* session is held before and after it
IsTurnOf(sessionId) ==
    /\ IsSet(sessions[sessionId])
    /\ IsSet(sessions'[sessionId])
    /\ res'.response # Some(<<"greeting">>)

\* the utterance is a positive / a negative answer for the yes-no handlers
SaysYes(message) == isPositive(trim(toLowerCase(message)))
SaysNo(message) == isNegative(trim(toLowerCase(message)))

\* C1: a session in which pet travel was requested at service intake never reaches
\* COMPLETED (its only terminal state is TRANSFER).
C1_PetSessionNeverCompleted ==
    \A sessionId \in Live :
        LET s == Val(sessions[sessionId])
        IN s.state = STATES.COMPLETED => "pet" \notin Range(s.requestedServices)

\* the service kind that owns a sub-state, and the sub-state in which a kind starts
ownerOf(state) ==
    CASE state \in {STATES.SEAT_TYPE, STATES.SEAT_CONFIRM} -> "seat"
      [] state \in {STATES.BAGGAGE_AMOUNT, STATES.BAGGAGE_CONFIRM} -> "baggage"
      [] state = STATES.PRIORITY_CONFIRM -> "priority"
      [] state \in {STATES.WHEELCHAIR_NAME, STATES.WHEELCHAIR_TYPE} -> "wheelchair"
      [] state = STATES.PET_DETAILS -> "pet"
      [] OTHER -> "none"

entryState(kind) ==
    CASE kind = "seat" -> STATES.SEAT_TYPE
      [] kind = "baggage" -> STATES.BAGGAGE_AMOUNT
      [] kind = "priority" -> STATES.PRIORITY_CONFIRM
      [] kind = "wheelchair" -> STATES.WHEELCHAIR_NAME
      [] kind = "pet" -> STATES.PET_DETAILS

\* where the dialog goes when the p-th listed service is the next one
stateForPosition(list, p) ==
    IF p > Len(list) THEN STATES.WHATSAPP_CONFIRM ELSE entryState(list[p])

InListOrder(s, t) ==
    /\ (s.state = STATES.CONFIRMING_FLIGHT
          /\ t.state \notin {STATES.CONFIRMING_FLIGHT, STATES.WAITING_PNR})
       => t.state = stateForPosition(s.requestedServices, 1)
    /\ (s.state \in ServiceStates /\ ownerOf(t.state) # ownerOf(s.state))
       => \E p \in 1..Len(s.requestedServices) :
             /\ s.requestedServices[p] = ownerOf(s.state)
             /\ t.state = stateForPosition(s.requestedServices, p + 1)

\* C2: after the flight is confirmed the sub-states owning the listed kinds are entered
\* in list order: the first listed kind first, after each kind the next listed one, and
\* WHATSAPP_CONFIRM only after the last; no listed service is skipped or reordered.
C2_ServicesInListOrder ==
    [][\A sessionId \in SessionIds :
          IsTurnOf(sessionId) => InListOrder(Val(sessions[sessionId]), Val(sessions'[sessionId]))]_vars

\* C3: pnr is set if and only if booking is set, in every reachable state.
C3_PnrIffBooking ==
    \A sessionId \in Live :
        IsSet(Val(sessions[sessionId]).pnr) <=> IsSet(Val(sessions[sessionId]).booking)

\* a session whose PNR was given in a later turn than the services, in lower case
C3_Witness ==
    \E sessionId \in Live :
        LET s == Val(sessions[sessionId])
        IN /\ s.pnr = Some(<<"X","Y","Z","7","8","9">>)
           /\ IsSet(s.booking)
           /\ s.state = STATES.CONFIRMING_FLIGHT
           /\ s.requestedServices = <<"baggage", "priority">>

\* C4: a negative answer at CONFIRMING_FLIGHT unsets pnr and booking, moves to
\* WAITING_PNR and leaves requestedServices, the cursor, completedServices and
\* unknownRequests as they were.
C4_NoAtConfirmingFlight ==
    [][\A sessionId \in SessionIds : \A message \in InputsFor(STATES.CONFIRMING_FLIGHT) :
          (/\ turnOf(sessionId, STATES.CONFIRMING_FLIGHT)
           /\ SaysNo(message)
           /\ ChatTurn(sessionId, message))
          => LET s == Val(sessions[sessionId])
                 t == Val(sessions'[sessionId])
             IN /\ t.pnr = None
                /\ t.booking = None
                /\ t.state = STATES.WAITING_PNR
                /\ t.requestedServices = s.requestedServices
                /\ t.currentServiceIndex = s.currentServiceIndex
                /\ t.completedServices = s.completedServices
                /\ t.unknownRequests = s.unknownRequests]_vars

\* the flight was disputed in a session that has services queued and one completed
C4_Witness ==
    \E sessionId \in Live :
        LET s == Val(sessions[sessionId])
        IN /\ res.response = Some(<<"reconfirm_pnr">>)
           /\ s.state = STATES.WAITING_PNR
           /\ ~IsSet(s.pnr)
           /\ s.requestedServices # <<>>
           /\ s.completedServices # <<>>
           /\ s.currentServiceIndex > 0

\* C5: once pnr is validated its value never changes to another PNR; the only change
\* is its clearing by a negative answer at CONFIRMING_FLIGHT.
C5_PnrNeverReplaced ==
    [][\A sessionId \in SessionIds :
          (IsTurnOf(sessionId) /\ IsSet(Val(sessions[sessionId]).pnr))
          => LET s == Val(sessions[sessionId])
                 t == Val(sessions'[sessionId])
             IN \/ t.pnr = s.pnr
                \/ /\ t.pnr = None
                   /\ s.state = STATES.CONFIRMING_FLIGHT
                   /\ t.state = STATES.WAITING_PNR]_vars

\* the step appends exactly one entry to completedServices
AppendsOne(s, t) ==
    /\ Len(t.completedServices) = Len(s.completedServices) + 1
    /\ SubSeq(t.completedServices, 1, Len(s.completedServices)) = s.completedServices

\* every utterance that makes the step is a positive answer
OnlyByYes(sessionId) ==
    \A message \in InputsFor(Val(sessions[sessionId]).state) :
        ChatTurn(sessionId, message) => SaysYes(message)

\* the state in which a kind is confirmed (the wheelchair has WHEELCHAIR_TYPE only)
confirmState(kind) ==
    CASE kind = "seat" -> STATES.SEAT_CONFIRM
      [] kind = "baggage" -> STATES.BAGGAGE_CONFIRM
      [] kind = "priority" -> STATES.PRIORITY_CONFIRM
      [] kind = "wheelchair" -> STATES.WHEELCHAIR_TYPE
      [] OTHER -> "none"

\* C6 as claimed: an entry is appended to completedServices only by a turn in which the
\* service's confirmation sub-state receives a positive response, for every kind.
C6_AppendedOnlyOnYes ==
    [][\A sessionId \in SessionIds :
          (/\ IsTurnOf(sessionId)
           /\ Val(sessions'[sessionId]).completedServices
                 # Val(sessions[sessionId]).completedServices)
          => LET s == Val(sessions[sessionId])
                 t == Val(sessions'[sessionId])
             IN /\ AppendsOne(s, t)
                /\ s.state = confirmState(t.completedServices[Len(t.completedServices)].type)
                /\ OnlyByYes(sessionId)]_vars

\* C6 amended: a seat, baggage or priority entry is appended only by a positive answer
\* in SEAT_CONFIRM, BAGGAGE_CONFIRM, PRIORITY_CONFIRM; a wheelchair entry is appended
\* by every turn in WHEELCHAIR_TYPE, whatever the utterance; nothing else changes
\* completedServices, and a turn appends one entry at most.
C6_AppendedOnYesOrWheelchairType ==
    [][\A sessionId \in SessionIds :
          /\ (/\ IsTurnOf(sessionId)
              /\ Val(sessions'[sessionId]).completedServices
                    # Val(sessions[sessionId]).completedServices)
             => LET s == Val(sessions[sessionId])
                    t == Val(sessions'[sessionId])
                    kind == t.completedServices[Len(t.completedServices)].type
                IN /\ AppendsOne(s, t)
                   /\ s.state = confirmState(kind)
                   /\ kind # "wheelchair" => OnlyByYes(sessionId)
          /\ (IsTurnOf(sessionId) /\ Val(sessions[sessionId]).state = STATES.WHEELCHAIR_TYPE)
             => LET s == Val(sessions[sessionId])
                    t == Val(sessions'[sessionId])
                IN /\ AppendsOne(s, t)
                   /\ t.completedServices[Len(t.completedServices)].type = "wheelchair"]_vars

\* a wheelchair was recorded by "gate to gate" at WHEELCHAIR_TYPE, which is no yes
C6_Witness ==
    \E sessionId \in Live :
        LET s == Val(sessions[sessionId])
        IN /\ Len(s.completedServices) >= 1
           /\ s.completedServices[Len(s.completedServices)]
                 = [type |-> "wheelchair",
                    details |-> <<"W","h","e","e","l","c","h","a","i","r"," ","f","o","r"," ","M","r","."," ","S","h","a","r","m","a"," ","(","g","a","t","e","-","t","o","-","g","a","t","e",")">>,
                    price |-> Some(0)]
           /\ res.response = Some(<<"wheelchair_arranged", "ask_pet_details">>)

\* C7: a turn that moves a session from WHATSAPP_CONFIRM into a terminal state moves it
\* to TRANSFER if pet details were collected or unknownRequests is non-empty, and to
\* COMPLETED otherwise; a terminal state is entered from WHATSAPP_CONFIRM only.
C7_TerminalStateByTransferRule ==
    [][\A sessionId \in SessionIds :
          (/\ IsTurnOf(sessionId)
           /\ Val(sessions[sessionId]).state \notin TerminalStates
           /\ Val(sessions'[sessionId]).state \in TerminalStates)
          => LET s == Val(sessions[sessionId])
                 t == Val(sessions'[sessionId])
                 pending(x) == IsSet(x.pendingData.petBreed) \/ Len(x.unknownRequests) > 0
             IN /\ s.state = STATES.WHATSAPP_CONFIRM
                /\ t.state = IF pending(s) THEN STATES.TRANSFER ELSE STATES.COMPLETED
                /\ pending(t) <=> pending(s)]_vars

\* a session with a completed service and an unknown request, no pet, was transferred
C7_Witness ==
    \E sessionId \in Live :
        LET s == Val(sessions[sessionId])
        IN /\ s.state = STATES.TRANSFER
           /\ ~IsSet(s.pendingData.petBreed)
           /\ Len(s.unknownRequests) > 0
           /\ s.completedServices # <<>>

\* the session a call starts with
FreshSession ==
    [state |-> STATES.WAITING_NAME,
     customerName |-> None,
     pnr |-> None,
     booking |-> None,
     requestedServices |-> <<>>,
     currentServiceIndex |-> 0,
     completedServices |-> <<>>,
     pendingData |-> [seatType |-> None, seatPrice |-> None, seatId |-> None,
                      baggageKg |-> None, baggageCost |-> None,
                      wheelchairName |-> None, petBreed |-> None, petWeight |-> None],
     unknownRequests |-> <<>>]

C9_StartLeavesFreshSession ==
    /\ [](\A sessionId \in SessionIds : ENABLED ChatStart(sessionId, TRUE))
    /\ [][\A sessionId \in SessionIds :
             (res'.response = Some(<<"greeting">>) /\ sessions'[sessionId] # sessions[sessionId])
             => sessions'[sessionId] = Some(FreshSession)]_vars

\* a session that ended with a name, a PNR and completed services, in which a start
\* request leaves a fresh session
C9_Witness ==
    \E sessionId \in Live :
        /\ Val(sessions[sessionId]).state \in TerminalStates
        /\ IsSet(Val(sessions[sessionId]).customerName)
        /\ IsSet(Val(sessions[sessionId]).pnr)
        /\ Val(sessions[sessionId]).completedServices # <<>>
        /\ ENABLED (ChatStart(sessionId, TRUE) /\ sessions'[sessionId] = Some(FreshSession))

\* C10: TRANSFER and COMPLETED are terminal: a turn of a session in either leaves its
\* state and all its fields unchanged.
C10_TerminalStatesAbsorb ==
    [][\A sessionId \in SessionIds :
          (IsTurnOf(sessionId) /\ Val(sessions[sessionId]).state \in TerminalStates)
          => sessions'[sessionId] = sessions[sessionId]]_vars

\* a turn was answered in a session that had ended with services completed
C10_Witness ==
    \E sessionId \in Live :
        /\ Val(sessions[sessionId]).state \in TerminalStates
        /\ Val(sessions[sessionId]).completedServices # <<>>
        /\ res.response = Some(<<"did_not_understand">>)

\* the replies with which a handler rejects an utterance and asks again
Reprompts ==
    {"name_reprompt", "list_services", "pnr_not_found", "pnr_reprompt", "flight_yes_or_no",
     "seat_type_reprompt", "seat_yes_or_no", "baggage_kg_reprompt", "baggage_yes_or_no",
     "priority_yes_or_no", "wheelchair_name_reprompt", "pet_details_reprompt",
     "summary_yes_or_no"}

IsReprompt(response) == \E tag \in Reprompts : response = Some(<<tag>>)

\* C11: in every non-terminal state, a turn whose utterance the state's handler rejects
\* (it answers with its clarifying re-prompt) leaves the session unchanged: state, pnr,
\* booking, requestedServices, currentServiceIndex, completedServices, pendingData and
\* unknownRequests are as before the turn.
C11_RepromptLeavesSessionUnchanged ==
    [][\A sessionId \in SessionIds :
          (/\ IsTurnOf(sessionId)
           /\ Val(sessions[sessionId]).state \notin TerminalStates
           /\ IsReprompt(res'.response))
          => sessions'[sessionId] = sessions[sessionId]]_vars

\* the price the server asks for a seat, by the details recorded for it
SeatPrices ==
    {<<<<"S","e","a","t"," ","1","4","A"," ","(","w","i","n","d","o","w",")">>, 200>>, <<<<"S","e","a","t"," ","1","4","C"," ","(","a","i","s","l","e",")">>, 150>>,
     <<<<"S","e","a","t"," ","1","2","A"," ","(","e","x","t","r","a"," ","l","e","g","r","o","o","m",")">>, 800>>}

\* C12: every seat entry of completedServices has price 200 for a window seat, 150 for
\* an aisle seat and 800 for an extra-legroom seat, every priority and wheelchair entry
\* has price 0, and no pet entry appears in completedServices.
C12_CompletedServicePrices ==
    \A sessionId \in Live :
        LET done == Val(sessions[sessionId]).completedServices
        IN \A i \in 1..Len(done) :
              /\ done[i].type # "pet"
              /\ done[i].type = "seat"
                    => IsSet(done[i].price) /\ <<done[i].details, Val(done[i].price)>> \in SeatPrices
              /\ done[i].type \in {"priority", "wheelchair"} => done[i].price = Some(0)

\* a session with an extra-legroom seat booked and a complimentary service after it
C12_Witness ==
    \E sessionId \in Live :
        LET done == Val(sessions[sessionId]).completedServices
        IN /\ Len(done) = 2
           /\ done[1].type = "seat" /\ done[1].price = Some(800)
           /\ done[2].type = "priority" /\ done[2].price = Some(0)

\* the session after the first k turns of a scenario, from the session a call starts with
RECURSIVE afterTurns(_, _)
afterTurns(scenario, k) ==
    IF k = 0 THEN FreshSession
    ELSE processMessage(afterTurns(scenario, k - 1), scenario[k]).session

\* the sessions a scenario goes through: the k-th is the session before the k-th turn
played(scenario) ==
    SubSeq([k \in 1..(Len(scenario) + 1) |-> afterTurns(scenario, k - 1)],
           1, Len(scenario) + 1)

ScenarioA == <<<<"T","h","i","s"," ","i","s"," ","R","a","h","u","l">>, <<"I"," ","n","e","e","d"," ","a"," ","w","i","n","d","o","w"," ","s","e","a","t",","," ","P","N","R"," ","A","B","C","1","2","3">>, <<"y","e","s">>, <<"y","e","s">>>>

ScenarioAWithSeatType ==
    <<<<"T","h","i","s"," ","i","s"," ","R","a","h","u","l">>, <<"I"," ","n","e","e","d"," ","a"," ","w","i","n","d","o","w"," ","s","e","a","t",","," ","P","N","R"," ","A","B","C","1","2","3">>, <<"y","e","s">>, <<"w","i","n","d","o","w">>, <<"y","e","s">>>>

PlayedA == played(ScenarioA)
PlayedAWithSeatType == played(ScenarioAWithSeatType)

\* the step is the k-th turn of the scenario, taken by a session that took the first k-1
IsScenarioTurn(sessionId, scenario, sessionsOfScenario, k) ==
    /\ sessions[sessionId] = Some(sessionsOfScenario[k])
    /\ ChatTurn(sessionId, scenario[k])

IsTurnOfA(sessionId, k) == IsScenarioTurn(sessionId, ScenarioA, PlayedA, k)
IsTurnOfAWithSeatType(sessionId, k) ==
    IsScenarioTurn(sessionId, ScenarioAWithSeatType, PlayedAWithSeatType, k)

NamedRahul(t) == t.customerName = Some(<<"R","a","h","u","l">>) /\ t.state = STATES.WAITING_SERVICE_CHOICE

SeatRequestedOnABC123(t) ==
    /\ t.requestedServices = <<"seat">>
    /\ t.pnr = Some(<<"A","B","C","1","2","3">>)
    /\ t.booking = lookupBooking(<<"A","B","C","1","2","3">>)
    /\ t.state = STATES.CONFIRMING_FLIGHT

WindowSeatBooked(t) ==
    /\ Len(t.completedServices) = 1
    /\ t.completedServices[1].type = "seat"
    /\ t.completedServices[1].price = Some(200)
    /\ t.state = STATES.WHATSAPP_CONFIRM

\* C15 as claimed: the four turns of scenario A give in order the name with
\* WAITING_SERVICE_CHOICE; requestedServices = [seat], pnr ABC123 and CONFIRMING_FLIGHT;
\* a seat prompt or quote; and completedServices = [{seat, 200}] with WHATSAPP_CONFIRM.
C15_ScenarioA ==
    [][\A sessionId \in SessionIds :
          LET t == Val(sessions'[sessionId])
          IN /\ IsTurnOfA(sessionId, 1) => NamedRahul(t)
             /\ IsTurnOfA(sessionId, 2) => SeatRequestedOnABC123(t)
             /\ IsTurnOfA(sessionId, 3)
                   => t.state \in {STATES.SEAT_TYPE, STATES.SEAT_CONFIRM}
             /\ IsTurnOfA(sessionId, 4) => WindowSeatBooked(t)]_vars

\* C15 amended: the seat type named at intake is not carried forward. After the flight
\* is confirmed the agent asks for the seat type; a "yes" there is rejected and changes
\* nothing; "window" gets the quote of seat 14A at 200, and the "yes" after it gives
\* completedServices = [{seat, 200}] with WHATSAPP_CONFIRM.
C15_ScenarioAWithSeatType ==
    [][\A sessionId \in SessionIds :
          LET s == Val(sessions[sessionId])
              t == Val(sessions'[sessionId])
          IN /\ IsTurnOfAWithSeatType(sessionId, 1) => NamedRahul(t)
             /\ IsTurnOfAWithSeatType(sessionId, 2) => SeatRequestedOnABC123(t)
             /\ IsTurnOfAWithSeatType(sessionId, 3)
                   => /\ t.state = STATES.SEAT_TYPE
                      /\ res'.response = Some(<<"great", "ask_seat_type">>)
             /\ IsTurnOfA(sessionId, 4)
                   => /\ t = s
                      /\ res'.response = Some(<<"seat_type_reprompt">>)
             /\ IsTurnOfAWithSeatType(sessionId, 4)
                   => /\ t.state = STATES.SEAT_CONFIRM
                      /\ t.pendingData.seatId = Some(<<"1","4","A">>)
                      /\ t.pendingData.seatPrice = Some(200)
                      /\ t.completedServices = <<>>
             /\ IsTurnOfAWithSeatType(sessionId, 5)
                   => /\ WindowSeatBooked(t)
                      /\ t.completedServices[1].details = <<"S","e","a","t"," ","1","4","A"," ","(","w","i","n","d","o","w",")">>]_vars

\* the scenario was played to its end
C15_Witness ==
    /\ sessions["session_1"] = Some(PlayedAWithSeatType[6])
    /\ WindowSeatBooked(Val(sessions["session_1"]))
    /\ res.response = Some(<<"seat_confirmed", "anything_else_or_summary">>)

\* C16: a negative answer at BAGGAGE_CONFIRM or PRIORITY_CONFIRM skips the service: the
\* cursor advances by exactly one, completedServices is unchanged, and the dialog goes
\* to the next requested service, or to WHATSAPP_CONFIRM when the list is exhausted.
C16_NoSkipsTheService ==
    [][\A sessionId \in SessionIds :
       \A state \in {STATES.BAGGAGE_CONFIRM, STATES.PRIORITY_CONFIRM} :
       \A message \in InputsFor(state) :
          (/\ turnOf(sessionId, state)
           /\ SaysNo(message)
           /\ ChatTurn(sessionId, message))
          => LET s == Val(sessions[sessionId])
                 t == Val(sessions'[sessionId])
             IN /\ t.currentServiceIndex = s.currentServiceIndex + 1
                /\ t.completedServices = s.completedServices
                /\ t.state = stateForPosition(s.requestedServices, s.currentServiceIndex + 2)
                /\ t.requestedServices = s.requestedServices]_vars

\* baggage was declined and priority offered next; then priority was declined, too
C16_Witness ==
    \E sessionId \in Live :
        LET s == Val(sessions[sessionId])
        IN /\ s.requestedServices = <<"baggage", "priority">>
           /\ s.currentServiceIndex = 2
           /\ s.completedServices = <<>>
           /\ s.state = STATES.WHATSAPP_CONFIRM
           /\ res.response = Some(<<"no_problem", "anything_else_or_summary">>)

\* the lines of a summary that have the given name
linesOf(summary, line) == {i \in 1..Len(summary) : summary[i].line = line}

\* one line for each completed service, in order, with the price when it is positive
\* and FREE when it is 0
ListsEveryService(session, summary) ==
    LET done == session.completedServices
        first == Least(linesOf(summary, "service"))
    IN /\ Cardinality(linesOf(summary, "service")) = Len(done)
       /\ done # <<>> =>
             \A i \in 1..Len(done) :
                /\ summary[first + i - 1].line = "service"
                /\ summary[first + i - 1].text = done[i].details
                /\ IF done[i].price = Some(0) \/ done[i].price = None
                   THEN summary[first + i - 1].free
                   ELSE /\ ~summary[first + i - 1].free
                        /\ summary[first + i - 1].amount = Val(done[i].price)

RECURSIVE sumOfPrices(_)
sumOfPrices(done) ==
    IF done = <<>> THEN 0
    ELSE (IF IsSet(Head(done).price) THEN Val(Head(done).price) ELSE 0) + sumOfPrices(Tail(done))

\* a total equal to the sum of the prices, and a payment link built from the PNR
HasTotalAndLink(session, summary) ==
    /\ \E i \in linesOf(summary, "total") : summary[i].amount = sumOfPrices(session.completedServices)
    /\ \E i \in linesOf(summary, "pay_at") : summary[i].text = Val(session.pnr)

\* the sessions in which a positive answer builds the summary
AtWhatsappConfirm ==
    {sessionId \in Live : Val(sessions[sessionId]).state = STATES.WHATSAPP_CONFIRM}

\* C20 as claimed: the summary lists one line per completedServices entry in order, with
\* the price when positive and FREE when 0, and whenever at least one service was
\* completed it holds a total equal to the sum of the prices and a payment link built
\* from the PNR.
C20_SummaryTotalsWheneverCompleted ==
    \A sessionId \in AtWhatsappConfirm :
        LET session == Val(sessions[sessionId])
            summary == generateWhatsappSummary(session)
        IN /\ ListsEveryService(session, summary)
           /\ session.completedServices # <<>> => HasTotalAndLink(session, summary)

\* C20 amended: the summary lists one line per completedServices entry in order, with
\* the price when positive and FREE when 0; it holds a total equal to the sum of the
\* prices and a payment link built from the PNR exactly when that sum is positive, and
\* neither of them when every completed service is free or none was completed.
C20_SummaryTotalsWhenDue ==
    \A sessionId \in AtWhatsappConfirm :
        LET session == Val(sessions[sessionId])
            summary == generateWhatsappSummary(session)
        IN /\ ListsEveryService(session, summary)
           /\ IF sumOfPrices(session.completedServices) > 0
              THEN HasTotalAndLink(session, summary)
              ELSE linesOf(summary, "total") = {} /\ linesOf(summary, "pay_at") = {}

\* a summary is due for a session with a charged and a complimentary service
C20_Witness ==
    \E sessionId \in AtWhatsappConfirm :
        LET session == Val(sessions[sessionId])
            summary == generateWhatsappSummary(session)
        IN /\ Len(session.completedServices) = 2
           /\ session.completedServices[1].price = Some(200)
           /\ session.completedServices[2].price = Some(0)
           /\ \E i \in linesOf(summary, "total") : summary[i].amount = 200
           /\ \E i \in linesOf(summary, "service") : summary[i].free


\* C14
\* Every step of the server is a request for one sessionId, a start or a turn, and it
\* leaves every field of every other session as it was, whatever the order in which the
\* requests of the two callers arrive.
RequestFor(sessionId) ==
    \/ ChatStart(sessionId, TRUE)
    \/ ChatStart(sessionId, FALSE)
    \/ /\ ~startsNewCall(getSession(sessionId), FALSE)
       /\ \E message \in TwoCallerInputsFor(Val(getSession(sessionId)).state) :
             ChatTurn(sessionId, message)

C14_SessionsIndependent ==
    [][\E a \in SessionIds :
          /\ RequestFor(a)
          /\ \A b \in SessionIds \ {a} : sessions'[b] = sessions[b]]_vars

\* both callers are in the middle of a call, on different bookings and at different
\* steps
C14_Witness ==
    /\ IsSet(sessions["session_1"])
    /\ IsSet(sessions["session_2"])
    /\ Val(sessions["session_1"]).state = STATES.SEAT_CONFIRM
    /\ Val(sessions["session_1"]).pnr = Some(<<"X","Y","Z","7","8","9">>)
    /\ Val(sessions["session_2"]).state = STATES.PET_DETAILS
    /\ Val(sessions["session_2"]).pnr = Some(<<"A","B","C","1","2","3">>)
    /\ Val(sessions["session_2"]).completedServices = <<>>

\* C18
\* The browser client never has two /api/chat requests outstanding at the same time for
\* the same sessionId, whatever the order of startCall, endCall, typed or spoken input
\* and the arrival of responses.
C18_OneRequestPerSession ==
    \A t \in tasks : \A u \in tasks \ {t} :
        outstanding(t) /\ outstanding(u) /\ IsSet(t.sessionId) => t.sessionId # u.sessionId

\* C17
\* When a call of the ConversationManager to a booking collaborator (book seat, add
\* baggage, enable priority, register wheelchair, send summary) fails or throws, the
\* dialog state is the one before the call, completedServices and totalCost are
\* unchanged, and a confirmation given next makes the same call again.
BookingCollaborators ==
    {"book-seat", "add-baggage", "priority-service", "wheelchair", "send-whatsapp"}

CallFailed(r) ==
    /\ IsSet(r.called)
    /\ Val(r.called) \in BookingCollaborators
    /\ Val(r.outcome) \in {"failure", "throws"}

HeldAt(before, after) ==
    /\ after.state = before.state
    /\ after.context.completedServices = before.context.completedServices
    /\ after.context.totalCost = before.context.totalCost

aSeat == CHOOSE seat \in SeatsOffered : TRUE

\* the collaborator called when the customer says yes, None when none is
CalledOnYes(m) ==
    processInput(m, <<"y","e","s">>, heard(<<"y","e","s">>), [outcome |-> "success", seat |-> aSeat]).called

C17_FailedCallIsRetriedOnYes ==
    [][CallFailed(reply') =>
          /\ HeldAt(manager, manager')
          /\ CalledOnYes(manager') = reply'.called]_vars

\* C19
\* For a text that has a PNR-shaped token (three letters and three digits, or six
\* letters and digits) among other words, the client's extractEntity('pnr') and the
\* server's PNR match both give that token in upper case.
C19_ExtractsTheToken ==
    probe.extracted =>
        /\ probe.client = Some(toUpperCase(probe.token))
        /\ probe.server = Some(toUpperCase(probe.token))

\* C13
\* For every kg from 1 to MaxKg the cost quoted for kg kilograms and the price recorded
\* on confirmation are 500 times the least number of 5 kg units that hold kg (1 -> 500,
\* 5 -> 500, 6 -> 1000, 10 -> 1000, 11 -> 1500), on the server and in the client's
\* ConversationManager alike.
ceilCost(kg) == 500 * Least({units \in 0..kg : 5 * units >= kg})

BaggageExamples == (1 :> 500) @@ (5 :> 500) @@ (6 :> 1000) @@ (10 :> 1000) @@ (11 :> 1500)

ServerQuote ==
    IF IsSet(sessions["session_1"])
    THEN Val(sessions["session_1"]).pendingData.baggageCost ELSE None

ServerRecorded ==
    LET done == IF IsSet(sessions["session_1"])
                THEN Val(sessions["session_1"]).completedServices ELSE <<>>
    IN IF done = <<>> THEN None ELSE done[Len(done)].price

ClientQuote ==
    IF manager.state = "awaiting_baggage_confirm"
    THEN Some(Val(manager.context.pendingData).cost) ELSE None

ClientRecorded ==
    LET done == manager.context.completedServices
    IN IF done = <<>> THEN None ELSE Some(done[Len(done)].price)

IsCostOf(cost, kg) ==
    IsSet(cost) =>
        /\ Val(cost) = ceilCost(kg)
        /\ kg \in DOMAIN BaggageExamples => Val(cost) = BaggageExamples[kg]

C13_BaggageCost ==
    /\ IsCostOf(ServerQuote, probe.kg)
    /\ IsCostOf(ServerRecorded, probe.kg)
    /\ IsCostOf(ClientQuote, probe.kg)
    /\ IsCostOf(ClientRecorded, probe.kg)
    /\ IsSet(ClientRecorded) => manager.context.totalCost = Val(ClientRecorded)
    /\ IsSet(ServerQuote) /\ IsSet(ClientQuote) => ServerQuote = ClientQuote

\* 11 kg were asked for and confirmed on both sides: 1500 each
C13_Witness ==
    /\ probe.kg = 11
    /\ ServerRecorded = Some(1500)
    /\ ClientRecorded = Some(1500)
    /\ "session_1" \in Live
    /\ Val(sessions["session_1"]).state = STATES.WHATSAPP_CONFIRM
    /\ manager.state = "service_complete"

(***************************************************************************)
(* Service intake, the wrap-up and the PNR turn of the server.             *)
(***************************************************************************)
\* the lowered utterance has none of the keywords of handleServiceChoice
namesNoService(lower) ==
    detectServices(lower) = <<>> /\ ~includesAny(lower, knownKeywords)

\* the pattern match is a PNR of the booking table
resolves(pnr) == IsSet(pnr) /\ IsSet(lookupBooking(Val(pnr)))

\* the reply lists the services again and the session waits for the choice
Relisted(sessionId) ==
    /\ res'.response = Some(<<"list_services">>)
    /\ Val(sessions'[sessionId]).state = STATES.WAITING_SERVICE_CHOICE

\* C21 as claimed: at WAITING_SERVICE_CHOICE an utterance with no known service keyword
\* and no resolvable PNR makes the agent list the services again and stay in
\* WAITING_SERVICE_CHOICE.
C21_NoKeywordRelists ==
    [][\A sessionId \in SessionIds : \A message \in InputsFor(STATES.WAITING_SERVICE_CHOICE) :
          (/\ turnOf(sessionId, STATES.WAITING_SERVICE_CHOICE)
           /\ namesNoService(toLowerCase(message))
           /\ ~resolves(matchPnr(message))
           /\ ChatTurn(sessionId, message))
          => Relisted(sessionId)]_vars

\* C21 amended: At WAITING_SERVICE_CHOICE the agent lists the services again and stays exactly when
\* the utterance names no service, is not kept as an unknown request (it has a known
\* keyword or at most 5 characters) and the session holds no unknown request; an
\* utterance of more than 5 characters without a known keyword is appended to
\* unknownRequests and the session goes on to WAITING_PNR, or to CONFIRMING_FLIGHT when
\* it holds a pnr.
C21_RelistsWhenNothingIsAsked ==
    [][\A sessionId \in SessionIds : \A message \in InputsFor(STATES.WAITING_SERVICE_CHOICE) :
          (/\ turnOf(sessionId, STATES.WAITING_SERVICE_CHOICE)
           /\ ChatTurn(sessionId, message))
          => LET s == Val(sessions[sessionId])
                 t == Val(sessions'[sessionId])
                 lower == toLowerCase(message)
                 kept == ~includesAny(lower, knownKeywords) /\ Len(lower) > 5
             IN /\ Relisted(sessionId) <=> /\ detectServices(lower) = <<>>
                                           /\ ~kept
                                           /\ s.unknownRequests = <<>>
                /\ ~Relisted(sessionId) =>
                      t.state = IF IsSet(t.pnr) THEN STATES.CONFIRMING_FLIGHT
                                ELSE STATES.WAITING_PNR
                /\ t.unknownRequests = IF kept THEN Append(s.unknownRequests, message)
                                       ELSE s.unknownRequests]_vars

\* <<"u","p","g","r","a","d","e"," ","m","y"," ","m","e","a","l">> was said at intake: it is kept and the agent asks for the PNR
C21_Witness ==
    \E sessionId \in Live :
        LET s == Val(sessions[sessionId])
        IN /\ res.response = Some(<<"ask_pnr">>)
           /\ s.state = STATES.WAITING_PNR
           /\ s.requestedServices = <<>>
           /\ s.unknownRequests = <<<<"u","p","g","r","a","d","e"," ","m","y"," ","m","e","a","l">>>>

\* the utterance asks for something else: it is no yes and has "else" or "more" in it
asksForMore(lower) ==
    ~isPositive(lower) /\ (includes(lower, <<"e","l","s","e">>) \/ includes(lower, <<"m","o","r","e">>))

bookedPnrs(message) ==
    {pnr \in DOMAIN bookingsData.bookings : includes(toUpperCase(message), pnr)}

C28_CursorWithinList ==
    \A sessionId \in Live :
        Val(sessions[sessionId]).currentServiceIndex
            <= Len(Val(sessions[sessionId]).requestedServices)

cleared(pendingData, kind) ==
    CASE kind = "seat" -> /\ pendingData.seatType = None
                          /\ pendingData.seatPrice = None
                          /\ pendingData.seatId = None
      [] kind = "baggage" -> /\ pendingData.baggageKg = None
                             /\ pendingData.baggageCost = None
      [] kind = "wheelchair" -> pendingData.wheelchairName = None

\* C30
\* After the turn that finalizes a seat, a baggage or a wheelchair service (the yes at
\* SEAT_CONFIRM or BAGGAGE_CONFIRM, the turn at WHEELCHAIR_TYPE) or abandons it (the no
\* at SEAT_CONFIRM or BAGGAGE_CONFIRM), pendingData holds none of that service's fields.
C30_PendingDataCleared ==
    [][\A sessionId \in SessionIds :
          \A state \in {STATES.SEAT_CONFIRM, STATES.BAGGAGE_CONFIRM, STATES.WHEELCHAIR_TYPE} :
             \A message \in InputsFor(state) :
                (/\ turnOf(sessionId, state)
                 /\ state = STATES.WHEELCHAIR_TYPE \/ SaysYes(message) \/ SaysNo(message)
                 /\ ChatTurn(sessionId, message))
                => cleared(Val(sessions'[sessionId]).pendingData, ownerOf(state))]_vars

(***************************************************************************)
(* Properties of the client's ConversationManager.                         *)
(***************************************************************************)
\* C24
\* A processInput call made in the state transfer or ended leaves the state as it is.
C24_TerminalStatesAbsorb ==
    [][(/\ manager.state \in {"transfer", "ended"}
        /\ IsSet(reply'.text))
       => manager'.state = manager.state]_vars

\* C25
\* After every processInput call context.pnr is set exactly when context.booking is.
C25_PnrIffBooking ==
    IsSet(manager.context.pnr) <=> IsSet(manager.context.booking)

(***************************************************************************)
(* Properties of the IntentEngine.                                         *)
(***************************************************************************)
\* the words and phrases of the confirm_yes and of the confirm_no patterns
AffirmativeLexicon == {<<"y","e","s">>, <<"y","e","a","h">>, <<"y","e","p">>, <<"s","u","r","e">>, <<"o","k">>, <<"o","k","a","y">>, <<"r","i","g","h","t">>, <<"c","o","r","r","e","c","t">>,
                       <<"t","h","a","t","'","s"," ","r","i","g","h","t">>, <<"t","h","a","t","'","s"," ","c","o","r","r","e","c","t">>, <<"p","l","e","a","s","e"," ","d","o">>, <<"g","o"," ","a","h","e","a","d">>}
NegativeLexicon == {<<"n","o">>, <<"n","o","p","e">>, <<"n","o","t"," ","n","o","w">>, <<"n","o","t"," ","y","e","t">>, <<"c","a","n","c","e","l">>, <<"d","o","n","'","t">>, <<"n","e","v","e","r"," ","m","i","n","d">>}

\* the utterance, lowered and trimmed, begins with a phrase of the lexicon
beginsWith(text, lexicon) ==
    LET normalizedText == trim(toLowerCase(text))
    IN \E phrase \in lexicon :
          /\ Len(phrase) <= Len(normalizedText)
          /\ SubSeq(normalizedText, 1, Len(phrase)) = phrase

\* C26
\* An utterance is a confirmation only when it begins with a phrase of the affirmative
\* lexicon and a denial only when it begins with a phrase of the negative lexicon, and
\* no utterance is both.
C26_OnlyTheStartDecides ==
    probe.classified =>
        /\ probe.confirmation => beginsWith(probe.text, AffirmativeLexicon)
        /\ probe.denial => beginsWith(probe.text, NegativeLexicon)
        /\ ~(probe.confirmation /\ probe.denial)

\* confidence a is at least confidence b
atLeast(a, b) == a.num * b.den >= b.num * a.den

\* C27
\* The list detectIntents returns has no two intents of the same name, and of any two
\* intents in it the earlier has the higher priority or, with equal priorities, a
\* confidence that is not lower.
C27_OncePerKindAndSorted ==
    probe.detected =>
        \A p, q \in 1..Len(probe.intents) :
            LET a == probe.intents[p]
                b == probe.intents[q]
            IN /\ a.name = b.name => p = q
               /\ p < q => \/ a.priority > b.priority
                           \/ a.priority = b.priority /\ atLeast(a.confidence, b.confidence)

\* confirm_no comes before confirm_yes, which stands before it in the table: the two
\* have the same priority and the denial has the higher confidence
C27_Witness ==
    /\ probe.detected
    /\ \E p, q \in 1..Len(probe.intents) :
          /\ p < q
          /\ probe.intents[p].name = "confirm_no"
          /\ probe.intents[q].name = "confirm_yes"
          /\ ~atLeast(probe.intents[q].confidence, probe.intents[p].confidence)

(***************************************************************************)
(* The cursor, the completed services and the fields the handlers read.    *)
(***************************************************************************)
\* C31
\* A turn never lowers currentServiceIndex and raises it by one at most.
C31_CursorNeverLowered ==
    [][\A sessionId \in SessionIds :
          IsTurnOf(sessionId)
          => Val(sessions'[sessionId]).currentServiceIndex
                \in {Val(sessions[sessionId]).currentServiceIndex,
                     Val(sessions[sessionId]).currentServiceIndex + 1}]_vars

\* the customer came back to the intake after two services: the cursor is still 2
C31_Witness ==
    \E sessionId \in Live :
        LET s == Val(sessions[sessionId])
        IN /\ res.response = Some(<<"what_else">>)
           /\ s.state = STATES.WAITING_SERVICE_CHOICE
           /\ s.currentServiceIndex = 2

\* C32
\* No two entries of completedServices have the same service kind.
C32_OneEntryPerKind ==
    \A sessionId \in Live :
        LET done == Val(sessions[sessionId]).completedServices
        IN \A p, q \in 1..Len(done) : done[p].type = done[q].type => p = q

\* the states whose handlers read session.pnr or the flight of session.booking
StatesWithFlight ==
    {STATES.CONFIRMING_FLIGHT, STATES.WHATSAPP_CONFIRM} \cup ServiceStates

\* C33
\* In CONFIRMING_FLIGHT, in every service sub-state and in WHATSAPP_CONFIRM the pnr and
\* the booking of the session are set, and the booking is the one of that pnr.
C33_FlightKnown ==
    \A sessionId \in Live :
        LET s == Val(sessions[sessionId])
        IN s.state \in StatesWithFlight =>
              /\ IsSet(s.pnr)
              /\ IsSet(s.booking)
              /\ s.booking = lookupBooking(Val(s.pnr))

\* a session that asked for baggage gave the PNR XYZ789, confirmed the flight and is
\* in a service sub-state with that booking
C33_Witness ==
    \E sessionId \in Live :
        LET s == Val(sessions[sessionId])
        IN /\ s.state \in ServiceStates
           /\ s.pnr = Some(<<"X","Y","Z","7","8","9">>)
           /\ s.booking = lookupBooking(<<"X","Y","Z","7","8","9">>)
           /\ s.requestedServices = <<"baggage">>
           /\ s.unknownRequests = <<>>

\* C34
\* Once the customer of a session only gives inputs that the state accepts, the session
\* reaches TRANSFER or COMPLETED.
C34_AcceptedInputsEndTheCall ==
    (probe = "accepting" /\ "session_1" \in Live)
        ~> ("session_1" \in Live
              /\ Val(sessions["session_1"]).state \in {STATES.TRANSFER, STATES.COMPLETED})

\* an accepting customer's call has ended after a service was completed
C34_Witness ==
    /\ probe = "accepting"
    /\ "session_1" \in Live
    /\ Val(sessions["session_1"]).state \in {STATES.TRANSFER, STATES.COMPLETED}
    /\ Val(sessions["session_1"]).completedServices # <<>>
    /\ res.response \in {Some(<<"summary_sent_transfer">>), Some(<<"summary_sent_goodbye">>)}

\* C35
\* While no call is active, no utterance begins to play and the recognition is not
\* started.
C35_SilentAfterEndCall ==
    [][(~app.isCallActive /\ ~app'.isCallActive)
         => /\ {t \in tasks' : t.at = "speak"} \subseteq {t \in tasks : t.at = "speak"}
            /\ (voice'.isSpeaking => voice.isSpeaking)
            /\ (voice'.recognition = "starting" => voice.recognition = "starting")]_vars

\* C36
\* The voice engine never listens while it speaks.
C36_NeverListeningWhileSpeaking == ~(voice.isListening /\ voice.isSpeaking)

\* the prices of the manager's completed services, added up
RECURSIVE priceOfAll(_)
priceOfAll(services) ==
    IF services = <<>> THEN 0
    ELSE Head(services).price + priceOfAll(Tail(services))

\* C37
\* The manager's totalCost is the sum of the prices of its completedServices.
C37_TotalIsSumOfPrices ==
    manager.context.totalCost = priceOfAll(manager.context.completedServices)

\* two services were completed and at least one of them was paid for
C37_Witness ==
    /\ Len(manager.context.completedServices) = 2
    /\ manager.context.totalCost > 0
    /\ \E i \in 1..2 : manager.context.completedServices[i].price = 0
    /\ manager.state = "service_complete"

\* C38
\* At awaiting_pet_details, the weight given after the manager asked for it (the breed
\* was given the turn before), or the breed given after the manager asked for it,
\* completes the pet details: the manager leaves awaiting_pet_details.
C38_PetDetailsAccumulate ==
    [][(/\ manager.state = "awaiting_pet_details"
        /\ \/ reply.response = Some(<<"ask_pet_weight">>) /\ reply'.text = Some(<<"1","0"," ","k","g">>)
           \/ reply.response = Some(<<"ask_pet_breed">>) /\ reply'.text = Some(<<"p","o","o","d","l","e">>))
         => manager'.state # "awaiting_pet_details"]_vars

\* C39
\* A session that is not in WAITING_NAME has a customer name, and a turn never changes
\* a name that is set.
C39_NamedAfterTheIntroduction ==
    /\ [](\A sessionId \in Live :
             Val(sessions[sessionId]).state # STATES.WAITING_NAME
             => /\ IsSet(Val(sessions[sessionId]).customerName)
                /\ Val(Val(sessions[sessionId]).customerName) # <<>>)
    /\ [][\A sessionId \in SessionIds :
             (IsTurnOf(sessionId) /\ IsSet(Val(sessions[sessionId]).customerName))
             => Val(sessions'[sessionId]).customerName = Val(sessions[sessionId]).customerName]_vars

\* the call is over for a customer who gave the name in lower case
C39_Witness ==
    /\ "session_1" \in Live
    /\ Val(sessions["session_1"]).state \in {STATES.TRANSFER, STATES.COMPLETED}
    /\ Val(sessions["session_1"]).customerName = Some(<<"R","a","h","u","l">>)

\* the price the agent quotes for a seat of each type
priceMatchesType(seatType, seatPrice) ==
    \/ seatType = <<"w","i","n","d","o","w">> /\ seatPrice = 200
    \/ seatType = <<"a","i","s","l","e">> /\ seatPrice = 150
    \/ seatType = <<"e","x","t","r","a"," ","l","e","g","r","o","o","m">> /\ seatPrice = 800

\* cost is 500 for every started block of 5 kg
isCeilPer5Times500(kg, cost) ==
    \E blocks \in 0..kg : /\ cost = 500 * blocks
                          /\ 5 * blocks >= kg
                          /\ 5 * (blocks - 1) < kg

\* C40
\* In SEAT_CONFIRM the pending seat type, id and price are set and the price is the one
\* of the type; in BAGGAGE_CONFIRM the pending kilograms and cost are set and the cost is
\* ceil(kg / 5) * 500; in WHEELCHAIR_TYPE the passenger's name is set.
C40_PendingFieldsSet ==
    \A sessionId \in Live :
        LET session == Val(sessions[sessionId])
            pending == session.pendingData
        IN /\ session.state = STATES.SEAT_CONFIRM
              => /\ IsSet(pending.seatType) /\ IsSet(pending.seatId) /\ IsSet(pending.seatPrice)
                 /\ priceMatchesType(Val(pending.seatType), Val(pending.seatPrice))
           /\ session.state = STATES.BAGGAGE_CONFIRM
              => /\ IsSet(pending.baggageKg) /\ IsSet(pending.baggageCost)
                 /\ isCeilPer5Times500(Val(pending.baggageKg), Val(pending.baggageCost))
           /\ session.state = STATES.WHEELCHAIR_TYPE
              => IsSet(pending.wheelchairName)

\* 6 kg, which are not a multiple of 5, are quoted at 1000
C40_Witness ==
    /\ "session_1" \in Live
    /\ Val(sessions["session_1"]).state = STATES.BAGGAGE_CONFIRM
    /\ Val(sessions["session_1"]).pendingData.baggageKg = Some(6)
    /\ Val(sessions["session_1"]).pendingData.baggageCost = Some(1000)
    /\ res.response = Some(<<"quote_baggage">>)
====
